---------------------------- MODULE Spec2Model ----------------------------
(***************************************************************************)
(* A model of batch_geocode's resolution engine:                           *)
(*   - GeocodedLocation (bounding box, diagonal buffer),                   *)
(*   - the four web interfaces (build_query, execute_query, populate_locs),*)
(*   - WebGeocodingManager (create_web_interfaces, geocode, vet,           *)
(*     get_results_as_series),                                             *)
(*   - the batch pipeline geocode_from_flask.                              *)
(* Source: src/geocode/query_funcs.py, src/geocode/batch_geocode.py,       *)
(* src/geocode/utilities.py.                                               *)
(***************************************************************************)
EXTENDS Integers, Sequences, FiniteSets, TLC

(***************************************************************************)
(* Python values.  A scalar is a pair <<kind, payload>>:                   *)
(*   <<"float", n>>  the float n (decimal degrees on a whole-degree grid,  *)
(*                   or a distance in units of 100 m)                      *)
(*   <<"nan", 0>>    the float NaN                                         *)
(*   <<"str", n>>    the text of the number n, as it stands in a JSON      *)
(*                   string or an XML text node                            *)
(*   <<"strnan", 0>> the text "nan"                                        *)
(*   <<"strbad", 0>> a text that is no number                              *)
(***************************************************************************)
F(n) == <<"float", n>>
NaN == <<"nan", 0>>
Str(n) == <<"str", n>>
StrNaN == <<"strnan", 0>>
StrBad == <<"strbad", 0>>

IsFloat(v) == v[1] \in {"float", "nan"}
IsStr(v) == v[1] \in {"str", "strnan", "strbad"}

\* Python's float(x): [err, val].  A text that is no number raises ValueError.
PyFloat(v) ==
    CASE v[1] = "float"  -> [err |-> "none", val |-> v]
      [] v[1] = "nan"    -> [err |-> "none", val |-> NaN]
      [] v[1] = "str"    -> [err |-> "none", val |-> F(v[2])]
      [] v[1] = "strnan" -> [err |-> "none", val |-> NaN]
      [] OTHER           -> [err |-> "ValueError", val |-> NaN]

\* a < b and a > b on floats: every comparison with NaN is False.  The code
\* never compares a str coordinate: the only locations that hold str
\* coordinates hold a single point (FuzzyGInterface.populate_locs).
PyLt(a, b) == a[1] = "float" /\ b[1] = "float" /\ a[2] < b[2]
PyGt(a, b) == a[1] = "float" /\ b[1] = "float" /\ a[2] > b[2]

\* a <= b on two floats.
PyLe(a, b) == a[1] = "float" /\ b[1] = "float" /\ a[2] <= b[2]

\* The builtin min(iterable): keeps the first item, and replaces it by a
\* later item only when that item compares smaller.
RECURSIVE PyMinFrom(_, _, _)
PyMinFrom(best, xs, i) ==
    IF i > Len(xs) THEN best
    ELSE PyMinFrom(IF PyLt(xs[i], best) THEN xs[i] ELSE best, xs, i + 1)

\* Mutant of PyMin: the first item, whatever follows.
PyMin_first(xs) == xs[1]

PyMin(xs) == PyMinFrom(xs[1], xs, 2)

\* The builtin max(iterable).
RECURSIVE PyMaxFrom(_, _, _)
PyMaxFrom(best, xs, i) ==
    IF i > Len(xs) THEN best
    ELSE PyMaxFrom(IF PyGt(xs[i], best) THEN xs[i] ELSE best, xs, i + 1)

PyMax(xs) == PyMaxFrom(xs[1], xs, 2)

(***************************************************************************)
(* haversine(pt_a, pt_b), in units of 100 m, tabulated on the whole-degree *)
(* grid 0..3 x 0..3 from the haversine formula with the mean earth radius  *)
(* 6371.0088 km: HaversineTable[lat1 + 1][lat2 + 1][|lng2 - lng1| + 1].    *)
(***************************************************************************)
HaversineTable ==
    << << <<0, 1112, 2224, 3336>>, <<1112, 1572, 2486, 3516>>,
          <<2224, 2486, 3145, 4009>>, <<3336, 3516, 4009, 4717>> >>,
       << <<1112, 1572, 2486, 3516>>, <<0, 1112, 2224, 3335>>,
          <<1112, 1572, 2486, 3515>>, <<2224, 2486, 3144, 4007>> >>,
       << <<2224, 2486, 3145, 4009>>, <<1112, 1572, 2486, 3515>>,
          <<0, 1111, 2223, 3334>>, <<1112, 1572, 2484, 3513>> >>,
       << <<3336, 3516, 4009, 4717>>, <<2224, 2486, 3144, 4007>>,
          <<1112, 1572, 2484, 3513>>, <<0, 1110, 2221, 3331>> >> >>

Abs(n) == IF n < 0 THEN -n ELSE n

\* GeocodedLocation.calc_haversine_distance: [err, val].  The haversine
\* package does arithmetic on its arguments: a str raises TypeError, a NaN
\* gives NaN.
calc_haversine_distance(a_long, a_lat, b_long, b_lat) ==
    IF \E v \in {a_long, a_lat, b_long, b_lat} : IsStr(v)
    THEN [err |-> "TypeError", val |-> NaN]
    ELSE IF \E v \in {a_long, a_lat, b_long, b_lat} : v = NaN
    THEN [err |-> "none", val |-> NaN]
    ELSE [err |-> "none",
          val |-> F(HaversineTable[a_lat[2] + 1][b_lat[2] + 1]
                                  [Abs(b_long[2] - a_long[2]) + 1])]

(***************************************************************************)
(* GeocodedLocation.  A point is <<x, y>>: pt[0] and pt[1] of the code.    *)
(***************************************************************************)
Xs(points_list) == [i \in 1..Len(points_list) |-> points_list[i][1]]
Ys(points_list) == [i \in 1..Len(points_list) |-> points_list[i][2]]

get_bounding_box(points_list) ==
    [min_x |-> PyMin(Xs(points_list)), min_y |-> PyMin(Ys(points_list)),
     max_x |-> PyMax(Xs(points_list)), max_y |-> PyMax(Ys(points_list))]

\* GeocodedLocation.__init__: the bounding box is computed at construction.
GeocodedLocation(points_list, address_name, location_type, source) ==
    [points_list |-> points_list, address_name |-> address_name,
     location_type |-> location_type, source |-> source,
     bound_box |-> get_bounding_box(points_list)]

\* Mutant of get_points_list: the first point only.
get_points_list_first(loc) == <<loc.points_list[1]>>

get_points_list(loc) == loc.points_list

get_diag_buffer(loc) ==
    calc_haversine_distance(loc.bound_box.min_x, loc.bound_box.min_y,
                            loc.bound_box.max_x, loc.bound_box.max_y)

\* Python's None, as the value of an entry of a dict of locations.
None == [none |-> TRUE]


(***************************************************************************)
(* Wire formats.  A JSON object (and an XML element, as xmltodict gives it)*)
(* is a record whose DOMAIN is the set of keys the object holds; a missing *)
(* key is a KeyError.  The body of a response is a record with a `kind`:   *)
(*   "garbage"     text that json.loads / xmltodict.parse cannot parse     *)
(*   "dict"        GM, GN: a JSON object, `obj`                            *)
(*   "list"        OSM: a JSON array of objects, `items`                   *)
(*   "keys"        OSM: a JSON object instead of the array (an error       *)
(*                 object); iterating it yields its keys, `keys`           *)
(*   "xml"         FG: the parsed document, `doc`                          *)
(***************************************************************************)
Has(obj, key) == key \in DOMAIN obj

\* min() that yields the length of the response whatever the cap.
Min2_first(a, b) == a

Min2(a, b) == IF a < b THEN a ELSE b

\* str.lower() on the country codes the model uses.
Lower(s) ==
    CASE s = "US" -> "us" [] s = "Us" -> "us" [] s = "FR" -> "fr"
      [] s = "USA" -> "usa" [] s = "None" -> "none" [] OTHER -> s

\* A str object, as the value of an attribute that may also be None.
PyStr(s) == [str |-> s]

\* str(x) of an ISO value: a str, or None.
StrOf(v) == IF v = None THEN "None" ELSE v.str

\* ';'.join(list of str)
RECURSIVE JoinFrom(_, _)
JoinFrom(xs, i) ==
    IF i > Len(xs) THEN ""
    ELSE IF i = Len(xs) THEN xs[i]
    ELSE xs[i] \o ";" \o JoinFrom(xs, i + 1)

Join(xs) == JoinFrom(xs, 1)

(***************************************************************************)
(* GMInterface.populate_locs.  The loop state is the interface's           *)
(* location_results, the local variable points_list (<<>> while it is      *)
(* unbound) and the exception that left the loop.                          *)
(***************************************************************************)
\* [[p['lng'], p['lat']]] of one corner or location: <<>> on a KeyError.
GMWirePoint(p) ==
    IF Has(p, "lng") /\ Has(p, "lat") THEN << <<p.lng, p.lat>> >> ELSE <<>>

\* Lines 893-901: the new value of points_list, and whether a KeyError
\* was raised before it was assigned.
GMPoints(loc, points_list) ==
    IF ~Has(loc, "geometry") THEN [key_error |-> TRUE, points_list |-> points_list]
    ELSE IF Has(loc.geometry, "bounds") THEN
        LET bounds == loc.geometry.bounds IN
        IF Has(bounds, "northeast") /\ Has(bounds, "southwest")
           /\ GMWirePoint(bounds.northeast) # <<>>
           /\ GMWirePoint(bounds.southwest) # <<>>
        THEN [key_error |-> FALSE,
              points_list |-> GMWirePoint(bounds.northeast)
                              \o GMWirePoint(bounds.southwest)]
        ELSE [key_error |-> TRUE, points_list |-> points_list]
    ELSE IF Has(loc.geometry, "location") THEN
        IF GMWirePoint(loc.geometry.location) # <<>>
        THEN [key_error |-> FALSE,
              points_list |-> GMWirePoint(loc.geometry.location)]
        ELSE [key_error |-> TRUE, points_list |-> points_list]
    ELSE [key_error |-> FALSE, points_list |-> points_list]

\* One pass of the loop body, lines 891-911.
GMLoopBody(st, loc) ==
    LET p == GMPoints(loc, st.points_list) IN
    IF p.key_error THEN [st EXCEPT !.points_list = p.points_list]
    ELSE IF p.points_list = <<>>
    THEN [st EXCEPT !.err = "UnboundLocalError"]
    ELSE IF ~Has(loc, "formatted_address") \/ ~Has(loc, "types")
    THEN [st EXCEPT !.points_list = p.points_list]
    ELSE [st EXCEPT !.points_list = p.points_list,
                    !.locs = Append(@, GeocodedLocation(p.points_list,
                                 loc.formatted_address, Join(loc.types), "GM"))]

RECURSIVE GMLoop(_, _, _, _)
GMLoop(st, response_list, i, num_locs) ==
    IF i > num_locs \/ st.err # "none" THEN st
    ELSE GMLoop(GMLoopBody(st, response_list[i]), response_list, i + 1, num_locs)

\* [locs |-> the interface's location_results afterwards, err |-> the
\* exception populate_locs raised, "none" when it returned].
GMInterface_populate_locs(self) ==
    LET body == self.output.text
        st0 == [locs |-> self.location_results, points_list |-> <<>>,
                err |-> "none"]
    IN  IF body.kind = "garbage" THEN [locs |-> st0.locs, err |-> "JSONDecodeError"]
        ELSE IF ~Has(body.obj, "results") THEN [locs |-> st0.locs, err |-> "none"]
        ELSE LET response_list == body.obj.results
                 st == GMLoop(st0, response_list, 1,
                              Min2(Len(response_list), self.n_results))
             IN  [locs |-> st.locs, err |-> st.err]

(***************************************************************************)
(* OSMInterface.                                                           *)
(***************************************************************************)
\* in_correct_country that drops the entries without a country code.
OSMInterface_in_correct_country_strict(self, loc_dict) ==
    IF self.iso = None THEN TRUE
    ELSE /\ Has(loc_dict, "address") /\ Has(loc_dict.address, "country_code")
         /\ Lower(loc_dict.address.country_code) = Lower(StrOf(self.iso))

OSMInterface_in_correct_country(self, loc_dict) ==
    IF self.iso = None THEN TRUE
    ELSE IF Has(loc_dict, "address") /\ Has(loc_dict.address, "country_code")
    THEN Lower(loc_dict.address.country_code) = Lower(StrOf(self.iso))
    ELSE TRUE

\* [float(b) for b in loc_dict['boundingbox']]: <<>> when a float() raised.
OSMBoundingBox(boundingbox) ==
    IF \E i \in 1..Len(boundingbox) : PyFloat(boundingbox[i]).err # "none"
    THEN <<>>
    ELSE [i \in 1..Len(boundingbox) |-> PyFloat(boundingbox[i]).val]

\* One pass of the loop body, lines 943-952: nothing is caught.
OSMLoopBody(st, loc_dict) ==
    IF ~Has(loc_dict, "boundingbox") THEN [st EXCEPT !.err = "KeyError"]
    ELSE LET bb == OSMBoundingBox(loc_dict.boundingbox) IN
    IF bb = <<>> THEN [st EXCEPT !.err = "ValueError"]
    ELSE IF ~Has(loc_dict, "display_name") \/ ~Has(loc_dict, "class")
    THEN [st EXCEPT !.err = "KeyError"]
    ELSE [st EXCEPT !.locs = Append(@, GeocodedLocation(
                        << <<bb[1], bb[3]>>, <<bb[2], bb[4]>> >>,
                        loc_dict.display_name, loc_dict.class, "OSM"))]

RECURSIVE OSMLoop(_, _, _, _)
OSMLoop(st, response_list, i, num_locs) ==
    IF i > num_locs \/ st.err # "none" THEN st
    ELSE OSMLoop(OSMLoopBody(st, response_list[i]), response_list, i + 1, num_locs)

OSMInterface_populate_locs(self) ==
    LET body == self.output.text
        st0 == [locs |-> self.location_results, err |-> "none"]
    IN  IF body.kind = "garbage" THEN [st0 EXCEPT !.err = "JSONDecodeError"]
        ELSE IF body.kind = "keys"
        THEN \* each item is a str: subscripting it by a str is a TypeError,
             \* in in_correct_country (iso given) or in the loop (iso None)
             IF Len(body.keys) > 0 /\ (self.iso # None \/ self.n_results > 0)
             THEN [st0 EXCEPT !.err = "TypeError"]
             ELSE st0
        ELSE LET response_list ==
                     SelectSeq(body.items,
                               LAMBDA i : OSMInterface_in_correct_country(self, i))
             IN  OSMLoop(st0, response_list, 1,
                         Min2(Len(response_list), self.n_results))

(***************************************************************************)
(* GNInterface.populate_locs: the whole body is one try block that catches *)
(* ValueError only.                                                        *)
(***************************************************************************)
GNLoopBody(st, loc_dict) ==
    IF ~Has(loc_dict, "lng") THEN [st EXCEPT !.err = "KeyError"]
    ELSE IF PyFloat(loc_dict.lng).err # "none" THEN [st EXCEPT !.err = "ValueError"]
    ELSE IF ~Has(loc_dict, "lat") THEN [st EXCEPT !.err = "KeyError"]
    ELSE IF PyFloat(loc_dict.lat).err # "none" THEN [st EXCEPT !.err = "ValueError"]
    ELSE IF ~Has(loc_dict, "name") \/ ~Has(loc_dict, "fclName")
    THEN [st EXCEPT !.err = "KeyError"]
    ELSE [st EXCEPT !.locs = Append(@, GeocodedLocation(
                        << <<PyFloat(loc_dict.lng).val, PyFloat(loc_dict.lat).val>> >>,
                        loc_dict.name, loc_dict.fclName, "GN"))]

RECURSIVE GNLoop(_, _, _, _)
GNLoop(st, response_list, i, num_locs) ==
    IF i > num_locs \/ st.err # "none" THEN st
    ELSE GNLoop(GNLoopBody(st, response_list[i]), response_list, i + 1, num_locs)

GNInterface_populate_locs(self) ==
    LET body == self.output.text
        st0 == [locs |-> self.location_results, err |-> "none"]
        tried ==
            IF body.kind = "garbage" THEN [st0 EXCEPT !.err = "JSONDecodeError"]
            ELSE IF ~Has(body.obj, "geonames") THEN [st0 EXCEPT !.err = "KeyError"]
            ELSE GNLoop(st0, body.obj.geonames, 1,
                        Min2(Len(body.obj.geonames), self.n_results))
    IN  \* except ValueError: pass (JSONDecodeError is a ValueError)
        IF tried.err \in {"ValueError", "JSONDecodeError"}
        THEN [tried EXCEPT !.err = "none"]
        ELSE tried

(***************************************************************************)
(* FuzzyGInterface.populate_locs.  xmltodict gives a list for a repeated   *)
(* <result> element and a single dict for one <result>; every text node is *)
(* a str.  `result` is [list |-> <<...>>] or [dict |-> the one object].    *)
(***************************************************************************)
FGLoopBody(st, loc_dict) ==
    IF ~Has(loc_dict, "ddlong") \/ ~Has(loc_dict, "ddlat")
       \/ ~Has(loc_dict, "fullname") \/ ~Has(loc_dict, "dsg")
       \/ ~Has(loc_dict.dsg, "#text")
    THEN [st EXCEPT !.err = "KeyError"]
    ELSE [st EXCEPT !.locs = Append(@, GeocodedLocation(
                        << <<loc_dict.ddlong, loc_dict.ddlat>> >>,
                        loc_dict.fullname, loc_dict.dsg["#text"], "FuzzyG"))]

RECURSIVE FGLoop(_, _, _, _)
FGLoop(st, response_list, i, num_locs) ==
    IF i > num_locs \/ st.err # "none" THEN st
    ELSE FGLoop(FGLoopBody(st, response_list[i]), response_list, i + 1, num_locs)

FuzzyGInterface_populate_locs(self) ==
    LET body == self.output.text
        st0 == [locs |-> self.location_results, err |-> "none"]
    IN  IF body.kind = "garbage" THEN [st0 EXCEPT !.err = "ExpatError"]
        ELSE IF ~(Has(body.doc, "fuzzyg") /\ Has(body.doc.fuzzyg, "response")
                  /\ Has(body.doc.fuzzyg.response, "results"))
        THEN [st0 EXCEPT !.err = "KeyError"]
        ELSE LET results == body.doc.fuzzyg.response.results IN
        IF results = None THEN st0
        ELSE IF ~Has(results, "result") THEN [st0 EXCEPT !.err = "KeyError"]
        ELSE LET response_list == results.result IN
        IF Has(response_list, "dict")
        THEN \* len(dict) is the number of its keys; response_list[0] is a
             \* lookup of the key 0, which the object does not hold
             IF Min2(Cardinality(DOMAIN response_list.dict), self.n_results) > 0
             THEN [st0 EXCEPT !.err = "KeyError"]
             ELSE st0
        ELSE FGLoop(st0, response_list.list, 1,
                    Min2(Len(response_list.list), self.n_results))


(***************************************************************************)
(* State.                                                                  *)
(***************************************************************************)
VARIABLES
    \* WebGeocodingManager attributes (query_funcs.py 651-659)
    location_text, iso, execute_names, gm_key, gn_key, results_per_app,
    max_buffer,
    execute_apps,       \* tag -> web interface; DOMAIN = the interfaces built
    location_results,   \* the dict of results, in insertion order:
                        \* a sequence of [k |-> key, v |-> location or None]
    \* control
    pc,                 \* the method (or step of geocode) that runs next, or
                        \* the one that raised when raised # "none"
    app_i,              \* position of geocode's loop in execute_apps.keys()
    raised,             \* the exception that left the manager, or "none"
    n_vets,             \* calls of vet() so far
    series,             \* what get_results_as_series returned
    \* the batch run (batch_geocode.py)
    caller,             \* "flask", "main", or "none": no batch, the manager
                        \* is driven directly
    c_args,             \* the arguments of the batch run
    batch_pc,           \* the step of the batch run that runs next
    df,                 \* the input table: a sequence of rows
    row_i,              \* the row progress_apply is at; 0 before it starts
    geocoded_cols,      \* the Series geocode_row returned, one per row
    batch_return,       \* what the batch run returned, or None
    \* the web application (app/routes.py)
    geocoding_user_variable_buffer,
                        \* the global deque of (user_id, geocoded_data)
    cookie,             \* per browser: <<user_id_geocode>> of its session
                        \* cookie, or <<>> without one
    requests,           \* per server thread: the request it is handling
    n_index             \* how many user ids uuid4() has drawn so far

mgr_config == <<location_text, iso, execute_names, gm_key, gn_key,
                results_per_app, max_buffer>>

app_vars == <<geocoding_user_variable_buffer, cookie, requests, n_index>>

batch_vars == <<caller, c_args, batch_pc, df, row_i, geocoded_cols,
                batch_return, app_vars>>

vars == <<location_text, iso, execute_names, gm_key, gn_key, results_per_app,
          max_buffer, execute_apps, location_results, pc, app_i, raised,
          n_vets, series, caller, c_args, batch_pc, df, row_i, geocoded_cols,
          batch_return, geocoding_user_variable_buffer, cookie, requests,
          n_index>>

\* No web application runs: the deque is as constructed (routes.py line 17)
\* and no thread handles a request.
no_app ==
    /\ geocoding_user_variable_buffer = <<>>
    /\ cookie = <<>>
    /\ requests = <<>>
    /\ n_index = 0

(***************************************************************************)
(* Dicts in insertion order.                                               *)
(***************************************************************************)
DictKeys(d) == {d[i].k : i \in 1..Len(d)}

DictIndex(d, key) == CHOOSE i \in 1..Len(d) : d[i].k = key

DictGet(d, key) == d[DictIndex(d, key)].v

\* d[key] = val: in place for a key the dict holds, appended otherwise.
DictSet(d, key, val) ==
    IF key \in DictKeys(d)
    THEN [d EXCEPT ![DictIndex(d, key)].v = val]
    ELSE Append(d, [k |-> key, v |-> val])

(***************************************************************************)
(* Web interfaces.                                                         *)
(***************************************************************************)
\* The order in which create_web_interfaces fills execute_apps.
TagOrder == <<"GM", "OSM", "GN", "FG">>

Tags == {"GM", "OSM", "GN", "FG"}

\* WebInterface.__init__
WebInterface(loc_text, iso_, key, n_results) ==
    [location_text |-> loc_text, iso |-> iso_, key |-> key,
     n_results |-> n_results, request_url |-> None, request_params |-> None,
     output |-> None, location_results |-> <<>>]

\* len(str(self.iso)) == 2 for the ISO values of the model
IsoHasTwoChars(iso_) == iso_ # None /\ Len(iso_.str) = 2

GMInterface_build_query(self) ==
    [self EXCEPT
        !.request_url = "https://maps.googleapis.com/maps/api/geocode/json",
        !.request_params =
            IF self.iso # None /\ IsoHasTwoChars(self.iso)
            THEN [address |-> self.location_text, key |-> self.key,
                  components |-> "country:" \o self.iso.str]
            ELSE [address |-> self.location_text, key |-> self.key]]

OSMInterface_build_query(self) ==
    [self EXCEPT
        !.request_url = "http://nominatim.openstreetmap.org/search",
        !.request_params = [q |-> self.location_text, format |-> "json",
                            addressdetails |-> "1"]]

GNInterface_build_query(self) ==
    [self EXCEPT
        !.request_url = "http://api.geonames.org/searchJSON",
        !.request_params =
            IF self.iso # None /\ IsoHasTwoChars(self.iso)
            THEN [q |-> self.location_text, username |-> self.key,
                  country |-> self.iso.str]
            ELSE [q |-> self.location_text, username |-> self.key]]

FuzzyGInterface_build_query(self) ==
    [self EXCEPT
        !.request_url = "http://dma.jrc.it/fuzzygall/xml/",
        !.request_params =
            IF self.iso # None /\ IsoHasTwoChars(self.iso)
            THEN [fuzzy |-> "0", start |-> "0", end |-> "2",
                  q |-> self.location_text, cc |-> self.iso.str]
            ELSE [fuzzy |-> "0", start |-> "0", end |-> "2",
                  q |-> self.location_text]]

build_query(tag, self) ==
    CASE tag = "GM"  -> GMInterface_build_query(self)
      [] tag = "OSM" -> OSMInterface_build_query(self)
      [] tag = "GN"  -> GNInterface_build_query(self)
      [] tag = "FG"  -> FuzzyGInterface_build_query(self)

populate_locs(tag, self) ==
    CASE tag = "GM"  -> GMInterface_populate_locs(self)
      [] tag = "OSM" -> OSMInterface_populate_locs(self)
      [] tag = "GN"  -> GNInterface_populate_locs(self)
      [] tag = "FG"  -> FuzzyGInterface_populate_locs(self)

return_locs(self) == self.location_results

(***************************************************************************)
(* WebGeocodingManager.vet, lines 706-732, as a function of the dict and   *)
(* the threshold.  The loop state: the dict, combined_pts, num_valid and   *)
(* the exception that left the loop.                                       *)
(***************************************************************************)
\* Mutant of WithinBuffer: buffer < self.max_buffer.
WithinBuffer_strict(loc, max_buf) == PyLt(get_diag_buffer(loc).val, F(max_buf))

\* buffer <= self.max_buffer: False for a NaN buffer.
WithinBuffer(loc, max_buf) == PyLe(get_diag_buffer(loc).val, F(max_buf))

VetLoopBody(st, i, max_buf) ==
    LET loc_res == st.results[i].v IN
    IF loc_res = None THEN st
    ELSE IF get_diag_buffer(loc_res).err # "none"
    THEN [st EXCEPT !.err = get_diag_buffer(loc_res).err]
    ELSE IF WithinBuffer(loc_res, max_buf)
    THEN [st EXCEPT !.combined_pts = @ \o get_points_list(loc_res),
                    !.num_valid = @ + 1]
    ELSE [st EXCEPT !.results[i].v = None]

RECURSIVE VetLoop(_, _, _)
VetLoop(st, i, max_buf) ==
    IF i > Len(st.results) \/ st.err # "none" THEN st
    ELSE VetLoop(VetLoopBody(st, i, max_buf), i + 1, max_buf)

CompositeType(num_valid) ==
    "Composite of " \o ToString(num_valid) \o " geocoded locations"

\* Mutant of VetFinalize: the composite is stored without the test of its
\* own buffer.
VetFinalize_unchecked(st, max_buf) ==
    IF Len(st.combined_pts) > 0
    THEN DictSet(st.results, "best",
                 GeocodedLocation(st.combined_pts, "Vetted",
                                  CompositeType(st.num_valid), "Vetted"))
    ELSE st.results

\* Lines 724-732: the dict after the composite was built and, within the
\* threshold, stored under 'best'.
VetFinalize(st, max_buf) ==
    IF Len(st.combined_pts) > 0
    THEN LET combined_location ==
                 GeocodedLocation(st.combined_pts, "Vetted",
                                  CompositeType(st.num_valid), "Vetted")
         IN  IF WithinBuffer(combined_location, max_buf)
             THEN DictSet(st.results, "best", combined_location)
             ELSE st.results
    ELSE st.results

\* [results |-> the dict afterwards, err |-> the exception vet raised].
vet(results, max_buf) ==
    LET st == VetLoop([results |-> results, combined_pts |-> <<>>,
                       num_valid |-> 0, err |-> "none"], 1, max_buf)
    IN  IF st.err # "none" THEN [results |-> st.results, err |-> st.err]
        ELSE [results |-> VetFinalize(st, max_buf), err |-> "none"]

(***************************************************************************)
(* get_results_as_series and GeocodedLocation.get_attributes_as_series.    *)
(***************************************************************************)
\* np.nanmean of a list of floats: the mean of the values that are not NaN,
\* kept as the exact fraction sum/n; NaN when there is none.
RECURSIVE SumFrom(_, _)
SumFrom(xs, i) ==
    IF i > Len(xs) THEN 0
    ELSE (IF xs[i][1] = "float" THEN xs[i][2] ELSE 0) + SumFrom(xs, i + 1)

NanMean(xs) ==
    LET n == Cardinality({i \in 1..Len(xs) : xs[i][1] = "float"}) IN
    IF n = 0 THEN [mean |-> NaN] ELSE [mean |-> [sum |-> SumFrom(xs, 1), n |-> n]]

get_centroid(loc) ==
    <<NanMean(Xs(loc.points_list)), NanMean(Ys(loc.points_list))>>

\* The nine attributes of one location, in the order of series_index.
get_attributes_as_series(loc) ==
    << [index |-> "name", val |-> loc.address_name],
       [index |-> "type", val |-> loc.location_type],
       [index |-> "long", val |-> get_centroid(loc)[1]],
       [index |-> "lat", val |-> get_centroid(loc)[2]],
       [index |-> "bb_n", val |-> loc.bound_box.max_y],
       [index |-> "bb_s", val |-> loc.bound_box.min_y],
       [index |-> "bb_e", val |-> loc.bound_box.max_x],
       [index |-> "bb_w", val |-> loc.bound_box.min_x],
       [index |-> "buffer", val |-> get_diag_buffer(loc).val] >>

\* The Series of a location with its labels left as they are.
RenameSeries_unprefixed(key, loc_series) == loc_series

\* loc_series.index = [f'{k}_{c}' ...]
RenameSeries(key, loc_series) ==
    [i \in 1..Len(loc_series) |->
        [loc_series[i] EXCEPT !.index = key \o "_" \o @]]

RECURSIVE ConcatSeries(_, _)
ConcatSeries(results, i) ==
    IF i > Len(results) THEN <<>>
    ELSE (IF results[i].v = None THEN <<>>
          ELSE RenameSeries(results[i].k, get_attributes_as_series(results[i].v)))
         \o ConcatSeries(results, i + 1)

\* np.nanmean and haversine raise TypeError on a str coordinate.
SeriesError(results) ==
    IF \E i \in 1..Len(results) :
          /\ results[i].v # None
          /\ \E j \in 1..Len(results[i].v.points_list) :
                IsStr(results[i].v.points_list[j][1])
                \/ IsStr(results[i].v.points_list[j][2])
    THEN "TypeError" ELSE "none"

get_results_as_series(results) == ConcatSeries(results, 1)


(***************************************************************************)
(* Provider responses the model draws from.                                *)
(***************************************************************************)
GMPoint(lng, lat) == [lng |-> lng, lat |-> lat]

GM_box ==
    [geometry |-> [bounds |-> [northeast |-> GMPoint(F(1), F(1)),
                               southwest |-> GMPoint(F(0), F(0))]],
     formatted_address |-> "GM box", types |-> <<"locality", "political">>]
GM_pt0 ==
    [geometry |-> [location |-> GMPoint(F(0), F(0))],
     formatted_address |-> "GM pt0", types |-> <<"route">>]
GM_pt1 ==
    [geometry |-> [location |-> GMPoint(F(1), F(1))],
     formatted_address |-> "GM pt1", types |-> <<"route">>]
\* a corner with a NaN longitude
GM_box_nan ==
    [geometry |-> [bounds |-> [northeast |-> GMPoint(F(1), F(1)),
                               southwest |-> GMPoint(NaN, F(0))]],
     formatted_address |-> "GM box nan", types |-> <<"locality">>]
GM_pt_nan ==
    [geometry |-> [location |-> GMPoint(NaN, F(0))],
     formatted_address |-> "GM pt nan", types |-> <<"route">>]
\* malformed entries
GM_no_geometry == [formatted_address |-> "GM no geometry", types |-> <<"route">>]
GM_no_address == [geometry |-> [location |-> GMPoint(F(1), F(0))],
                  types |-> <<"route">>]
GM_no_bounds_no_location ==
    [geometry |-> [location_type |-> "APPROXIMATE"],
     formatted_address |-> "GM no shape", types |-> <<"route">>]

GMResults(items) == [kind |-> "dict", obj |-> [status |-> "OK", results |-> items]]
GMNoResultsKey == [kind |-> "dict", obj |-> [status |-> "REQUEST_DENIED"]]
Garbage == [kind |-> "garbage"]

OSM_box ==
    [boundingbox |-> <<Str(0), Str(1), Str(0), Str(1)>>, display_name |-> "OSM box",
     class |-> "boundary", address |-> [country_code |-> "us"]]
OSM_pt1 ==
    [boundingbox |-> <<Str(1), Str(1), Str(1), Str(1)>>, display_name |-> "OSM pt1",
     class |-> "place", address |-> [city |-> "x"]]
OSM_fr ==
    [boundingbox |-> <<Str(0), Str(0), Str(0), Str(0)>>, display_name |-> "OSM fr",
     class |-> "place", address |-> [country_code |-> "fr"]]
\* south = north = 0, west = 0, east = 1
OSM_wide ==
    [boundingbox |-> <<Str(0), Str(0), Str(0), Str(1)>>, display_name |-> "OSM wide",
     class |-> "highway"]
OSM_no_boundingbox == [display_name |-> "OSM no box", class |-> "place"]
OSM_bad_number ==
    [boundingbox |-> <<Str(0), StrBad, Str(0), Str(1)>>, display_name |-> "OSM bad",
     class |-> "place"]

OSMList(items) == [kind |-> "list", items |-> items]
OSMErrorObject == [kind |-> "keys", keys |-> <<"error">>]

GN_pt0 == [lng |-> Str(0), lat |-> Str(0), name |-> "GN pt0", fclName |-> "city"]
GN_pt1 == [lng |-> Str(1), lat |-> Str(1), name |-> "GN pt1", fclName |-> "city"]
GN_nan == [lng |-> StrNaN, lat |-> Str(1), name |-> "GN nan", fclName |-> "city"]
GN_no_lng == [lat |-> Str(0), name |-> "GN no lng", fclName |-> "city"]
GN_bad_lng == [lng |-> StrBad, lat |-> Str(0), name |-> "GN bad lng",
               fclName |-> "city"]
GN_no_name == [lng |-> Str(0), lat |-> Str(1), fclName |-> "city"]

GNResults(items) == [kind |-> "dict", obj |-> [totalResultsCount |-> Len(items),
                                              geonames |-> items]]
GNNoGeonamesKey == [kind |-> "dict", obj |-> [status |-> "invalid user"]]

FG_pt0 == [ddlong |-> Str(0), ddlat |-> Str(0), fullname |-> "FG pt0",
           dsg |-> ("#text" :> "PPL")]
FG_pt1 == [ddlong |-> Str(1), ddlat |-> Str(1), fullname |-> "FG pt1",
           dsg |-> ("#text" :> "PPL")]
FG_no_fullname == [ddlong |-> Str(1), ddlat |-> Str(0), dsg |-> ("#text" :> "PPL")]

FGDoc(results) == [kind |-> "xml", doc |-> [fuzzyg |-> [response |-> [results |-> results]]]]
\* no match: an empty <results/> element
FGNoMatch == FGDoc(None)
\* exactly one match: `result` is the object itself
FGOneMatch(obj) == FGDoc([result |-> [dict |-> obj]])
\* two matches or more: `result` is a list
FGMatches(items) == FGDoc([result |-> [list |-> items]])
FGNoResultsNode == [kind |-> "xml", doc |-> [fuzzyg |-> [response |-> [error |-> "x"]]]]

\* All sequences of at most n members of S.
SeqsUpTo(S, n) == UNION {[1..k -> S] : k \in 0..n}

\* The longest list of entries of a response, where the model draws every
\* list over an entry set.
MaxEntries == 2

\* One interface at a time: every list up to MaxEntries over the entry set
\* of the provider, and the responses that are malformed as a whole.
RichResponses(tag) ==
    CASE tag = "GM" ->
           {GMResults(items) : items \in SeqsUpTo(
                {GM_box, GM_pt0, GM_pt1, GM_box_nan, GM_pt_nan, GM_no_geometry,
                 GM_no_address, GM_no_bounds_no_location}, MaxEntries)}
           \cup {GMNoResultsKey, Garbage}
      [] tag = "OSM" ->
           {OSMList(items) : items \in SeqsUpTo(
                {OSM_box, OSM_pt1, OSM_fr, OSM_wide, OSM_no_boundingbox,
                 OSM_bad_number}, MaxEntries)}
           \cup {OSMErrorObject, Garbage}
      [] tag = "GN" ->
           {GNResults(items) : items \in SeqsUpTo(
                {GN_pt0, GN_pt1, GN_nan, GN_no_lng, GN_bad_lng, GN_no_name},
                MaxEntries)}
           \cup {GNNoGeonamesKey, Garbage}
      [] tag = "FG" ->
           {FGMatches(items) : items \in (SeqsUpTo(
                {FG_pt0, FG_pt1, FG_no_fullname}, MaxEntries + 1) \ SeqsUpTo(
                {FG_pt0, FG_pt1, FG_no_fullname}, 1))}
           \cup {FGOneMatch(obj) : obj \in {FG_pt0, FG_pt1}}
           \cup {FGNoMatch, FGNoResultsNode, Garbage}

\* Several interfaces in one manager: a few responses of each provider.
FewResponses(tag) ==
    CASE tag = "GM" ->
           {GMResults(items) : items \in
                {<<>>, <<GM_box>>, <<GM_pt0>>, <<GM_pt0, GM_pt1>>,
                 <<GM_box_nan, GM_pt1>>, <<GM_pt_nan>>}}
      [] tag = "OSM" ->
           {OSMList(items) : items \in
                {<<>>, <<OSM_box>>, <<OSM_fr, OSM_pt1>>}}
      [] tag = "GN" ->
           {GNResults(items) : items \in
                {<<>>, <<GN_pt0>>, <<GN_pt1, GN_pt0>>, <<GN_nan>>}}
      [] tag = "FG" ->
           {FGNoMatch, FGMatches(<<FG_pt0, FG_pt1>>)}

\* The answers of the providers in a batch run.
BatchResponses(tag) ==
    CASE tag = "GM" ->
           {GMResults(<<>>), GMResults(<<GM_pt0>>), GMResults(<<GM_pt0, GM_pt1>>)}
      [] tag = "OSM" ->
           {OSMList(<<OSM_box>>), OSMList(<<OSM_no_boundingbox>>)}
      [] tag = "GN" ->
           {GNResults(<<>>), GNResults(<<GN_pt1>>), GNNoGeonamesKey}
      [] tag = "FG" -> {FGNoMatch}

\* The answers execute_query draws from: those of one of the universes
\* above.
Responses(universe, tag) ==
    CASE universe = "few" -> FewResponses(tag)
      [] universe = "rich" -> RichResponses(tag)
      [] universe = "batch" -> BatchResponses(tag)

(***************************************************************************)
(* WebGeocodingManager: one action per method, and one per step of the     *)
(* loop of geocode().                                                      *)
(***************************************************************************)
\* list(self.execute_apps.keys())
AppKeys == SelectSeq(TagOrder, LAMBDA t : t \in DOMAIN execute_apps)

app_class == AppKeys[app_i]

KeyFor(tag) ==
    CASE tag = "GM" -> PyStr(gm_key) [] tag = "GN" -> PyStr(gn_key) [] OTHER -> None

\* No exception has left the manager, and a caller is inside it.
Running == raised = "none" /\ batch_pc \in {"none", "row"}

create_web_interfaces ==
    /\ Running /\ pc = "create_web_interfaces"
    /\ execute_apps' = [t \in execute_names \cap Tags |->
                           WebInterface(location_text, iso, KeyFor(t),
                                        results_per_app)]
    /\ pc' = "geocode"
    /\ UNCHANGED <<batch_vars, mgr_config, location_results, app_i, raised, n_vets, series>>

\* geocode(): entering the for loop
geocode ==
    /\ Running /\ pc = "geocode"
    /\ app_i' = 1
    /\ pc' = IF Len(AppKeys) = 0 THEN "vet" ELSE "build_query"
    /\ UNCHANGED <<batch_vars, mgr_config, execute_apps, location_results, raised, n_vets,
                   series>>

geocode_build_query ==
    /\ Running /\ pc = "build_query"
    /\ execute_apps' = [execute_apps EXCEPT ![app_class] = build_query(app_class, @)]
    /\ pc' = "execute_query"
    /\ UNCHANGED <<batch_vars, mgr_config, location_results, app_i, raised, n_vets, series>>

\* WebInterface.execute_query: requests.get returns a response, or raises
\* when the provider cannot be reached or times out.  Nothing catches it.
geocode_execute_query(universe) ==
    /\ Running /\ pc = "execute_query"
    /\ \/ /\ \E body \in Responses(universe, app_class) :
                execute_apps' = [execute_apps EXCEPT
                                    ![app_class].output = [text |-> body]]
          /\ pc' = "populate_locs"
          /\ UNCHANGED raised
       \/ /\ raised' = "ConnectionError"
          /\ UNCHANGED <<execute_apps, pc>>
    /\ UNCHANGED <<batch_vars, mgr_config, location_results, app_i, n_vets, series>>

geocode_populate_locs ==
    /\ Running /\ pc = "populate_locs"
    /\ LET res == populate_locs(app_class, execute_apps[app_class]) IN
        /\ execute_apps' = [execute_apps EXCEPT
                               ![app_class].location_results = res.locs]
        /\ raised' = res.err
        /\ pc' = IF res.err = "none" THEN "return_locs" ELSE pc
    /\ UNCHANGED <<batch_vars, mgr_config, location_results, app_i, n_vets, series>>

\* lines 702-704: the dict after location_results[f'{app_class}{i+1}'] =
\* loc_res[i] for i in range(from_i - 1, len(loc_res))
\* The Results of a client inserted under the ranks counted from the last.
Collect_reversed(results, tag, loc_res, from_i) ==
    results \o [i \in 1..Len(loc_res) |->
                   [k |-> tag \o ToString(i), v |-> loc_res[Len(loc_res) + 1 - i]]]

RECURSIVE Collect(_, _, _, _)
Collect(results, tag, loc_res, from_i) ==
    IF from_i > Len(loc_res) THEN results
    ELSE Collect(DictSet(results, tag \o ToString(from_i), loc_res[from_i]),
                 tag, loc_res, from_i + 1)

geocode_return_locs ==
    /\ Running /\ pc = "return_locs"
    /\ location_results' = Collect(location_results, app_class,
                                   return_locs(execute_apps[app_class]), 1)
    /\ app_i' = app_i + 1
    /\ pc' = IF app_i = Len(AppKeys) THEN "vet" ELSE "build_query"
    /\ UNCHANGED <<batch_vars, mgr_config, execute_apps, raised, n_vets, series>>

\* The bound on the calls of vet() on one manager.
MaxVets == 2

\* geocode_row calls vet() once on the manager it builds.
VetCalls == IF caller = "none" THEN MaxVets ELSE 1

Vet ==
    /\ Running /\ pc \in {"vet", "get_results_as_series"}
    /\ n_vets < VetCalls
    /\ LET res == vet(location_results, max_buffer) IN
        /\ location_results' = res.results
        /\ raised' = res.err
        /\ pc' = IF res.err = "none" THEN "get_results_as_series" ELSE "vet"
    /\ n_vets' = n_vets + 1
    /\ UNCHANGED <<batch_vars, mgr_config, execute_apps, app_i, series>>

GetResultsAsSeries ==
    /\ Running /\ pc = "get_results_as_series"
    /\ raised' = SeriesError(location_results)
    /\ IF SeriesError(location_results) = "none"
       THEN /\ series' = get_results_as_series(location_results)
            /\ pc' = "done"
       ELSE UNCHANGED <<series, pc>>
    /\ UNCHANGED <<batch_vars, mgr_config, execute_apps, location_results, app_i, n_vets>>

(***************************************************************************)
(* Specifications.                                                         *)
(***************************************************************************)
\* The largest results_per_app the model draws.
MaxResults == 2

\* The ISO values a manager is given: none, a two-letter code, and a code
\* of three letters.
IsoValues == {None, PyStr("US"), PyStr("USA")}

\* Thresholds in units of 100 m: 0, one degree of latitude, and the
\* diagonal of the box (0,0)-(1,1).
MaxBufferValues == {0, HaversineTable[1][2][1], HaversineTable[1][2][2]}

\* The state after WebGeocodingManager.__init__ .
InitManager(ExecuteSets) ==
    /\ location_text = "place"
    /\ iso \in IsoValues
    /\ execute_names \in ExecuteSets
    /\ gm_key = "gm-key"
    /\ gn_key = "gn-user"
    /\ results_per_app \in 1..MaxResults
    /\ max_buffer \in MaxBufferValues
    /\ execute_apps = <<>>
    /\ location_results = <<>>
    /\ pc = "create_web_interfaces"
    /\ app_i = 0
    /\ raised = "none"
    /\ n_vets = 0
    /\ series = <<>>
    /\ caller = "none"
    /\ c_args = None
    /\ batch_pc = "none"
    /\ df = <<>>
    /\ row_i = 0
    /\ geocoded_cols = <<>>
    /\ batch_return = None
    /\ no_app

\* One manager over any set of providers.
Init == InitManager(SUBSET Tags)

Next ==
    \/ create_web_interfaces
    \/ geocode
    \/ geocode_build_query
    \/ geocode_execute_query("few")
    \/ geocode_populate_locs
    \/ geocode_return_locs
    \/ Vet
    \/ GetResultsAsSeries

Spec == Init /\ [][Next]_vars

\* One manager with a single provider, over all its responses.
InitOne == InitManager({{t} : t \in Tags})

NextOne ==
    \/ create_web_interfaces
    \/ geocode
    \/ geocode_build_query
    \/ geocode_execute_query("rich")
    \/ geocode_populate_locs
    \/ geocode_return_locs
    \/ Vet
    \/ GetResultsAsSeries

SpecOne == InitOne /\ [][NextOne]_vars

(***************************************************************************)
(* The batch run: geocode_from_flask and the command line of               *)
(* batch_geocode.py, over the rows of an input table.                      *)
(***************************************************************************)
\* A list object, as the value of an argument that may also be None.
PyList(xs) == [list |-> xs]

Range(xs) == {xs[i] : i \in 1..Len(xs)}

\* `usetools or None`: an empty list is falsy.
OrNone(v) == IF v # None /\ Len(v.list) = 0 THEN None ELSE v

\* A check of the keys that accepts every configuration.
check_keys_for_tools_none(keygm, geonames, usetools) ==
    [err |-> "none", val |-> None]

\* utilities.check_keys_for_tools; `"GM" in None` raises TypeError.
check_keys_for_tools(keygm, geonames, usetools) ==
    IF usetools = None THEN [err |-> "TypeError", val |-> None]
    ELSE IF "GM" \in Range(usetools.list) /\ keygm = ""
    THEN [err |-> "none",
          val |-> PyStr("Google Maps has been specified as a service, "
                        \o "a Google Maps key must be provided.")]
    ELSE IF "GN" \in Range(usetools.list) /\ geonames = ""
    THEN [err |-> "none",
          val |-> PyStr("Geonames has been specified as a service, "
                        \o "a Geonames username must be provided.")]
    ELSE [err |-> "none", val |-> None]

\* utilities.read_to_pandas: the table of the file, or the error of a file
\* that no encoding reads.
read_to_pandas(fp) ==
    IF Has(fp, "rows") THEN [df |-> fp.rows, read_error |-> None]
    ELSE [df |-> None, read_error |-> PyStr("UnicodeDecodeError")]

\* utilities.read_and_prep_input
read_and_prep_input(f) == read_to_pandas(f)

\* The columns of a table: those of its first row.
TableColumns(table) == DOMAIN table[1]

\* validate_columns: the first of the ISO and address column names that is
\* not a column of the table, or None.
validate_columns(table, iso_col, address_col) ==
    IF iso_col \notin TableColumns(table) THEN PyStr(iso_col)
    ELSE IF address_col \notin TableColumns(table) THEN PyStr(address_col)
    ELSE None

\* str.upper() on the country codes the model uses.
Upper(s) ==
    CASE s = "us" -> "US" [] s = "fr" -> "FR" [] s = "zz" -> "ZZ" [] OTHER -> s

valid_iso2_set ==
    {"AF", "AX", "AL", "DZ", "AS", "AD", "AO", "AI", "AQ", "AG", "AR",
     "AM", "AW", "AU", "AT", "AZ", "BH", "BS", "BD", "BB", "BY", "BE",
     "BZ", "BJ", "BM", "BT", "BO", "BQ", "BA", "BW", "BV", "BR", "IO",
     "BN", "BG", "BF", "BI", "KH", "CM", "CA", "CV", "KY", "CF", "TD",
     "CL", "CN", "CX", "CC", "CO", "KM", "CG", "CD", "CK", "CR", "CI",
     "HR", "CU", "CW", "CY", "CZ", "DK", "DJ", "DM", "DO", "EC", "EG",
     "SV", "GQ", "ER", "EE", "ET", "FK", "FO", "FJ", "FI", "FR", "GF",
     "PF", "TF", "GA", "GM", "GE", "DE", "GH", "GI", "GR", "GL", "GD",
     "GP", "GU", "GT", "GG", "GN", "GW", "GY", "HT", "HM", "VA", "HN",
     "HK", "HU", "IS", "IN", "ID", "IR", "IQ", "IE", "IM", "IL", "IT",
     "JM", "JP", "JE", "JO", "KZ", "KE", "KI", "KP", "KR", "KW", "KG",
     "LA", "LV", "LB", "LS", "LR", "LY", "LI", "LT", "LU", "MO", "MK",
     "MG", "MW", "MY", "MV", "ML", "MT", "MH", "MQ", "MR", "MU", "YT",
     "MX", "FM", "MD", "MC", "MN", "ME", "MS", "MA", "MZ", "MM", "NA",
     "NR", "NP", "NL", "NC", "NZ", "NI", "NE", "NG", "NU", "NF", "MP",
     "NO", "OM", "PK", "PW", "PS", "PA", "PG", "PY", "PE", "PH", "PN",
     "PL", "PT", "PR", "QA", "RE", "RO", "RU", "RW", "BL", "SH", "KN",
     "LC", "MF", "PM", "VC", "WS", "SM", "ST", "SA", "SN", "RS", "SC",
     "SL", "SG", "SX", "SK", "SI", "SB", "SO", "ZA", "GS", "SS", "ES",
     "LK", "SD", "SR", "SJ", "SZ", "SE", "CH", "SY", "TW", "TJ", "TZ",
     "TH", "TL", "TG", "TK", "TO", "TT", "TN", "TR", "TM", "TC", "TV",
     "UG", "UA", "AE", "GB", "US", "UM", "UY", "UZ", "VU", "VE", "VN",
     "VG", "VI", "WF", "EH", "YE", "ZM", "ZW"}

\* Series.unique(): the values in the order of their first appearance.
RECURSIVE Unique(_, _)
Unique(xs, i) ==
    IF i > Len(xs) THEN <<>>
    ELSE IF \E j \in 1..(i - 1) : xs[j] = xs[i] THEN Unique(xs, i + 1)
    ELSE <<xs[i]>> \o Unique(xs, i + 1)

\* ", ".join(list of str)
RECURSIVE CommaJoin(_, _)
CommaJoin(xs, i) ==
    IF i >= Len(xs) THEN xs[i] ELSE xs[i] \o ", " \o CommaJoin(xs, i + 1)

\* A check of the ISO codes that looks at the first row only.
validate_iso2_first(iso2_list) ==
    IF Upper(iso2_list[1]) \in valid_iso2_set THEN None
    ELSE PyStr(Upper(iso2_list[1]))

\* utilities.validate_iso2
validate_iso2(iso2_list) ==
    LET uniq == Unique(iso2_list, 1)
        iso2_set == [i \in 1..Len(uniq) |-> Upper(uniq[i])]
        bad_iso2s == SelectSeq(iso2_set, LAMBDA item : item \notin valid_iso2_set)
    IN  IF Len(bad_iso2s) = 0 THEN None
        ELSE IF Len(bad_iso2s) > 1 THEN PyStr(CommaJoin(bad_iso2s, 1))
        ELSE PyStr(bad_iso2s[1])

\* df[iso]: one column of the table
Column(table, col) == [r \in 1..Len(table) |-> table[r][col]]

\* utilities.get_geocoding_suffixes
get_geocoding_suffixes == <<"name", "type", "lat", "long", "buffer">>

\* series_index of GeocodedLocation.get_attributes_as_series
series_index ==
    <<"name", "type", "long", "lat", "bb_n", "bb_s", "bb_e", "bb_w", "buffer">>

\* The keys of location_results of one provider: f'{app_class}{i+1}'
KeysOf(tag) == [i \in 1..MaxResults |-> tag \o ToString(i)]

\* Every key a manager of the model can hold: 'best', then the tags in
\* alphabetical order whatever the case of their letters, by rank.
SortedKeys ==
    <<"best">> \o KeysOf("FG") \o KeysOf("GM") \o KeysOf("GN") \o KeysOf("OSM")

\* The prefix of every column name f'{k}_{c}' of the model.
PrefixOf ==
    [c \in {p \o "_" \o s : p \in Range(SortedKeys), s \in Range(series_index)} |->
        CHOOSE p \in Range(SortedKeys) :
            \E s \in Range(series_index) : c = p \o "_" \o s]

\* c[0:c.index('_')] of a column name f'{k}_{c}'
Prefix(c) == PrefixOf[c]

\* The columns of the DataFrame that progress_apply builds of the Series
\* of the rows: every index label of some row.
ColumnsOf(gc_df) ==
    UNION {{gc_df[r][j].index : j \in 1..Len(gc_df[r])} : r \in 1..Len(gc_df)}

\* One cell of that DataFrame: the value of the row's Series, or NaN.
Cell(row_series, col) ==
    IF \E j \in 1..Len(row_series) : row_series[j].index = col
    THEN row_series[CHOOSE j \in 1..Len(row_series) :
                        row_series[j].index = col].val
    ELSE NaN

\* ord() of the characters of the names of the keys.
TagChars(tag) ==
    CASE tag = "best" -> <<98, 101, 115, 116>>
      [] tag = "FG" -> <<70, 71>>
      [] tag = "GM" -> <<71, 77>>
      [] tag = "GN" -> <<71, 78>>
      [] tag = "OSM" -> <<79, 83, 77>>

\* The characters of every key of the model: those of 'best', or those of
\* a tag and of the digit of a rank below ten.
CharsOf ==
    [p \in Range(SortedKeys) |->
        IF p = "best" THEN TagChars(p)
        ELSE LET ti == CHOOSE ti \in Tags \X (1..9) :
                           p = ti[1] \o ToString(ti[2])
             IN  TagChars(ti[1]) \o <<48 + ti[2]>>]

\* The characters of a key.
Chars(p) == CharsOf[p]

\* str.lower(): the letters A-Z become a-z.
LowerChars(cs) ==
    [i \in 1..Len(cs) |-> IF cs[i] >= 65 /\ cs[i] <= 90 THEN cs[i] + 32 ELSE cs[i]]

\* A sort key that keeps the case of the letters.
SortKey_case_sensitive(p) == Chars(p)

\* key=lambda s: s.lower()
SortKey(p) == LowerChars(Chars(p))

\* a < b of two str, from their character i on
RECURSIVE StrLess(_, _, _)
StrLess(a, b, i) ==
    IF i > Len(b) THEN FALSE
    ELSE IF i > Len(a) THEN TRUE
    ELSE IF a[i] # b[i] THEN a[i] < b[i]
    ELSE StrLess(a, b, i + 1)

\* The elements of S from the least key to the greatest; the keys differ.
RECURSIVE SortedBy(_, _)
SortedBy(S, key) ==
    IF S = {} THEN <<>>
    ELSE LET least == CHOOSE p \in S :
                 \A q \in S \ {p} : StrLess(key[p], key[q], 1)
         IN  <<least>> \o SortedBy(S \ {least}, key)

\* sorted(list(set(...)), key=...) of prefixes
Sorted(S) == SortedBy(S, [p \in S |-> SortKey(p)])

\* The prefixes left as they are: no 'best' is put first.
WithBest_unchanged(prefixes) == prefixes

\* if 'best' not in prefixes: prefixes = ['best'] + prefixes
WithBest(prefixes) ==
    IF "best" \notin Range(prefixes) THEN <<"best">> \o prefixes ELSE prefixes

\* [f'{p}_{s}' for p in prefixes for s in suffixes]
AllCols(prefixes, suffixes) ==
    [n \in 1..(Len(prefixes) * Len(suffixes)) |->
        prefixes[((n - 1) \div Len(suffixes)) + 1] \o "_"
            \o suffixes[((n - 1) % Len(suffixes)) + 1]]

\* gc_df.reindex(labels=all_cols, axis='columns'): a column that gc_df
\* does not have is a column of NaN
reindex(gc_df, all_cols) ==
    [r \in 1..Len(gc_df) |->
        [n \in 1..Len(all_cols) |->
            [index |-> all_cols[n], val |-> Cell(gc_df[r], all_cols[n])]]]

\* batch_geocode.rearrange_fields: the table reindexed to prefix x suffix
rearrange_fields(gc_df) ==
    reindex(gc_df,
            AllCols(WithBest(Sorted({Prefix(c) : c \in ColumnsOf(gc_df)})),
                    get_geocoding_suffixes))

\* The columns of the input tables of the model, in their order.
InputColumns == <<"address", "iso2">>

\* One row of the input table as its cells, in the order of the columns.
RowCells(row) ==
    [n \in 1..Len(InputColumns) |->
        [index |-> InputColumns[n], val |-> row[InputColumns[n]]]]

\* The geocoding columns put before the columns of the input.
concat_geocoding_first(table, gc_df) ==
    [r \in 1..Len(table) |-> gc_df[r] \o RowCells(table[r])]

\* pd.concat([df, geocoded_cols], axis=1): every row of df followed by
\* the cells of the same row of geocoded_cols
concat(table, gc_df) ==
    [r \in 1..Len(table) |-> RowCells(table[r]) \o gc_df[r]]

\* utilities.prep_stringio_output: the table written as CSV to a buffer
prep_stringio_output(table) == [string_buffer |-> [csv |-> table], io_e |-> None]

\* utilities.write_pandas: the table written to the output file
write_pandas(table) == [file |-> table]

\* return (out, category, error) of geocode_from_flask
Return(out, category, error) ==
    /\ batch_return' = [out |-> out, category |-> category, err |-> error]
    /\ batch_pc' = "returned"

\* geocode_from_flask, lines 46-74: the checks made before any row is
\* geocoded.
geocode_from_flask ==
    /\ caller = "flask" /\ batch_pc = "start" /\ raised = "none"
    /\ LET usetools == OrNone(c_args.usetools)
           key_error == check_keys_for_tools(c_args.keygm, c_args.geonames,
                                             usetools)
           read == read_and_prep_input(c_args.infile)
       IN  IF key_error.err # "none"
           THEN /\ raised' = key_error.err
                /\ UNCHANGED <<batch_pc, df, row_i, batch_return>>
           ELSE /\ UNCHANGED raised
                /\ IF key_error.val # None
                   THEN /\ Return(None, PyStr("Key Error: "), key_error.val)
                        /\ UNCHANGED <<df, row_i>>
                   ELSE IF read.read_error # None
                   THEN /\ Return(None, PyStr("Infile Error: "), read.read_error)
                        /\ UNCHANGED <<df, row_i>>
                   ELSE IF validate_columns(read.df, c_args.iso.str,
                                            c_args.address) # None
                   THEN /\ Return(None, PyStr("Invalid column: "),
                                  validate_columns(read.df, c_args.iso.str,
                                                   c_args.address))
                        /\ df' = read.df
                        /\ UNCHANGED row_i
                   ELSE IF validate_iso2(Column(read.df, c_args.iso.str)) # None
                   THEN /\ Return(None,
                              PyStr("The following iso2s provided were invalid: "),
                              validate_iso2(Column(read.df, c_args.iso.str)))
                        /\ df' = read.df
                        /\ UNCHANGED row_i
                   ELSE /\ df' = read.df
                        /\ row_i' = 1
                        /\ batch_pc' = "apply"
                        /\ UNCHANGED batch_return
    /\ UNCHANGED <<mgr_config, execute_apps, location_results, pc, app_i,
                   n_vets, series, caller, c_args, geocoded_cols>>
    /\ UNCHANGED app_vars

\* __main__, lines 152-160: the input file is read; a file that cannot be
\* read raises.
main ==
    /\ caller = "main" /\ batch_pc = "start" /\ raised = "none"
    /\ LET read == read_to_pandas(c_args.infile) IN
        IF read.read_error # None
        THEN /\ raised' = "Exception"
             /\ UNCHANGED <<batch_pc, df, row_i>>
        ELSE /\ df' = read.df
             /\ row_i' = 1
             /\ batch_pc' = "apply"
             /\ UNCHANGED raised
    /\ UNCHANGED <<mgr_config, execute_apps, location_results, pc, app_i,
                   n_vets, series, caller, c_args, geocoded_cols, batch_return>>
    /\ UNCHANGED app_vars

\* geocode_row: a WebGeocodingManager is built for the location; its
\* interfaces are created, it geocodes and vets, and its results are
\* returned as a Series.  This is the construction of the manager;
\* the calls are the manager's actions.
geocode_row(address, iso_, key_gm, key_gn, execute, results_per, max_buf) ==
    /\ location_text' = address
    /\ iso' = iso_
    /\ execute_names' = execute
    /\ gm_key' = key_gm
    /\ gn_key' = key_gn
    /\ results_per_app' = results_per
    /\ max_buffer' = max_buf
    /\ execute_apps' = <<>>
    /\ location_results' = <<>>
    /\ pc' = "create_web_interfaces"
    /\ app_i' = 0
    /\ n_vets' = 0
    /\ series' = <<>>

\* One row of df.progress_apply(lambda row: geocode_row(...), axis=1):
\* the lambda reads the row's address and ISO code and calls geocode_row;
\* reading a column the row does not have raises KeyError.
progress_apply ==
    /\ batch_pc = "apply" /\ raised = "none" /\ row_i <= Len(df)
    /\ batch_pc' = "row"
    /\ LET row == df[row_i]
           reads == {c_args.address} \cup
                    (IF c_args.iso = None THEN {} ELSE {c_args.iso.str})
       IN  IF ~(reads \subseteq DOMAIN row)
           THEN /\ raised' = "KeyError"
                /\ UNCHANGED <<mgr_config, execute_apps, location_results, pc,
                               app_i, n_vets, series>>
           ELSE /\ geocode_row(row[c_args.address],
                               IF c_args.iso = None THEN None
                               ELSE PyStr(row[c_args.iso.str]),
                               c_args.keygm, c_args.geonames,
                               Range(c_args.usetools.list),
                               c_args.resultspersource, c_args.geo_buffer)
                /\ UNCHANGED raised
    /\ UNCHANGED <<caller, c_args, df, row_i, geocoded_cols, batch_return>>
    /\ UNCHANGED app_vars

\* geocode_row returns the Series of the manager, which progress_apply
\* keeps for the row; the next row follows.
geocode_row_return ==
    /\ batch_pc = "row" /\ raised = "none" /\ pc = "done"
    /\ geocoded_cols' = Append(geocoded_cols, series)
    /\ row_i' = row_i + 1
    /\ batch_pc' = "apply"
    /\ pc' = "idle"
    /\ UNCHANGED <<mgr_config, execute_apps, location_results, app_i, raised,
                   n_vets, series, caller, c_args, df, batch_return>>
    /\ UNCHANGED app_vars

\* geocode_from_flask, lines 89-90: an exception raised while any row is
\* geocoded ends progress_apply and is returned as the error of the batch.
geocode_from_flask_except ==
    /\ caller = "flask" /\ batch_pc = "row" /\ raised # "none"
    /\ Return(None, PyStr("Geocoding Error: "), PyStr(raised))
    /\ raised' = "none"
    /\ UNCHANGED <<mgr_config, execute_apps, location_results, pc, app_i,
                   n_vets, series, caller, c_args, df, row_i, geocoded_cols>>
    /\ UNCHANGED app_vars

\* geocode_from_flask, lines 87-97, after the last row
geocode_from_flask_return ==
    /\ caller = "flask" /\ batch_pc = "apply" /\ raised = "none"
    /\ row_i > Len(df)
    /\ LET df_with_geocoding == concat(df, rearrange_fields(geocoded_cols))
       IN  Return(prep_stringio_output(df_with_geocoding).string_buffer,
                  None, None)
    /\ UNCHANGED <<mgr_config, execute_apps, location_results, pc, app_i,
                   raised, n_vets, series, caller, c_args, df, row_i,
                   geocoded_cols>>
    /\ UNCHANGED app_vars

\* __main__, lines 185-190, after the last row
main_write_pandas ==
    /\ caller = "main" /\ batch_pc = "apply" /\ raised = "none"
    /\ row_i > Len(df)
    /\ LET df_with_geocoding == concat(df, rearrange_fields(geocoded_cols))
       IN  Return(write_pandas(df_with_geocoding), None, None)
    /\ UNCHANGED <<mgr_config, execute_apps, location_results, pc, app_i,
                   raised, n_vets, series, caller, c_args, df, row_i,
                   geocoded_cols>>
    /\ UNCHANGED app_vars

\* The most rows of an input table.
MaxRows == 2

\* A row of the input table: its address and ISO-2 columns.
Rows == [address : {"place"}, iso2 : {"US", "fr", "ZZ"}]

\* The input file: a table of one row or more, or a file that cannot be read.
Infiles ==
    {[rows |-> t] : t \in SeqsUpTo(Rows, MaxRows) \ {<<>>}}
    \cup {[unreadable |-> TRUE]}

\* The arguments of a batch run.
BatchArgs ==
    [infile : Infiles,
     keygm : {"", "gm-key"},
     geonames : {"", "gn-user"},
     iso : {None, PyStr("iso2")},
     address : {"address", "location"},
     usetools : {PyList(<<>>), PyList(<<"GM">>), PyList(<<"GM", "OSM", "GN">>),
                 PyList(<<"GN">>)},
     resultspersource : {1, MaxResults},
     geo_buffer : {HaversineTable[1][2][2]}]

\* A batch run about to start; the form of the web page always names an
\* ISO column, and the runs from the command line that the model draws are
\* given both credentials.
InitBatch ==
    /\ caller \in {"flask", "main"}
    /\ c_args \in BatchArgs
    /\ caller = "flask" => c_args.iso # None
    /\ caller = "main" => (c_args.keygm # "" /\ c_args.geonames # "")
    /\ batch_pc = "start"
    /\ df = <<>>
    /\ row_i = 0
    /\ geocoded_cols = <<>>
    /\ batch_return = None
    /\ location_text = ""
    /\ iso = None
    /\ execute_names = {}
    /\ gm_key = ""
    /\ gn_key = ""
    /\ results_per_app = 1
    /\ max_buffer = 0
    /\ execute_apps = <<>>
    /\ location_results = <<>>
    /\ pc = "idle"
    /\ app_i = 0
    /\ raised = "none"
    /\ n_vets = 0
    /\ series = <<>>
    /\ no_app

NextBatch ==
    \/ geocode_from_flask
    \/ main
    \/ progress_apply
    \/ create_web_interfaces
    \/ geocode
    \/ geocode_build_query
    \/ geocode_execute_query("batch")
    \/ geocode_populate_locs
    \/ geocode_return_locs
    \/ Vet
    \/ GetResultsAsSeries
    \/ geocode_row_return
    \/ geocode_from_flask_except
    \/ geocode_from_flask_return
    \/ main_write_pandas

SpecBatch == InitBatch /\ [][NextBatch]_vars

(***************************************************************************)
(* rearrange_fields as a function of the DataFrame it is given: the        *)
(* argument is drawn from the DataFrames that progress_apply can build of  *)
(* the Series of managers over any subset of the keys.                     *)
(***************************************************************************)
\* The Series of a manager that holds the keys of `keys`: the labels
\* f'{k}_{c}' of every key, with the values `val`.
SeriesOver(keys, val) ==
    LET ks == SelectSeq(SortedKeys, LAMBDA k : k \in keys)
        n_c == Len(series_index)
    IN  [n \in 1..(Len(ks) * n_c) |->
            [index |-> ks[((n - 1) \div n_c) + 1] \o "_"
                           \o series_index[((n - 1) % n_c) + 1],
             val |-> val]]

\* The DataFrames given to rearrange_fields: one row over any subset of
\* the keys and, or not, a second row that holds 'best' or no key.
RearrangeInputs ==
    LET keys == Range(SortedKeys)
    IN  {<<SeriesOver(ks, F(1))>> : ks \in SUBSET keys}
        \cup {<<SeriesOver(ks, F(1)), SeriesOver(k2, F(2))>> :
                 ks \in SUBSET keys, k2 \in {{}, {"best"}}}

InitRearrange ==
    /\ caller = "rearrange_fields"
    /\ c_args \in [gc_df : RearrangeInputs]
    /\ batch_pc = "call"
    /\ df = <<>>
    /\ row_i = 0
    /\ geocoded_cols = <<>>
    /\ batch_return = None
    /\ location_text = ""
    /\ iso = None
    /\ execute_names = {}
    /\ gm_key = ""
    /\ gn_key = ""
    /\ results_per_app = 1
    /\ max_buffer = 0
    /\ execute_apps = <<>>
    /\ location_results = <<>>
    /\ pc = "idle"
    /\ app_i = 0
    /\ raised = "none"
    /\ n_vets = 0
    /\ series = <<>>
    /\ no_app

\* The call rearrange_fields(gc_df) and the DataFrame it returns.
rearrange_fields_call ==
    /\ caller = "rearrange_fields" /\ batch_pc = "call"
    /\ batch_pc' = "returned"
    /\ batch_return' = [reindexed |-> rearrange_fields(c_args.gc_df)]
    /\ UNCHANGED <<mgr_config, execute_apps, location_results, pc, app_i,
                   raised, n_vets, series, caller, c_args, df, row_i,
                   geocoded_cols>>
    /\ UNCHANGED app_vars

NextRearrange == rearrange_fields_call

SpecRearrange == InitRearrange /\ [][NextRearrange]_vars

(***************************************************************************)
(* get_chunked_series of the command-line script src/batch_geocode.py, as  *)
(* a function of the number of rows; its only call leaves chunk_size at    *)
(* its default.                                                            *)
(***************************************************************************)
\* The default of chunk_size.
DefaultChunkSize == 50

\* The most rows of the table that is split into chunks.
MaxTotalLength == 120

\* np.floor(1.0 * a / b) and np.ceil(1.0 * a / b) of two positive ints
Floor(a, b) == a \div b
Ceil(a, b) == (a + b - 1) \div b

\* get_chunk(row_num, chunk_size, total_length): the label of one row
get_chunk(row_num, chunk_size, total_length) ==
    LET low == Floor(row_num, chunk_size) * chunk_size + 1
        high == Min2(Ceil(row_num, chunk_size) * chunk_size, total_length)
    IN  ToString(low) \o "_to_" \o ToString(high)

\* s = pd.Series(range(1, total_length + 1)); s.apply(get_chunk)
get_chunked_series(total_length, chunk_size) ==
    [x \in 1..total_length |-> get_chunk(x, chunk_size, total_length)]

InitChunked ==
    /\ caller = "get_chunked_series"
    /\ c_args \in [total_length : 0..MaxTotalLength,
                   chunk_size : {DefaultChunkSize}]
    /\ batch_pc = "call"
    /\ df = <<>>
    /\ row_i = 0
    /\ geocoded_cols = <<>>
    /\ batch_return = None
    /\ location_text = ""
    /\ iso = None
    /\ execute_names = {}
    /\ gm_key = ""
    /\ gn_key = ""
    /\ results_per_app = 1
    /\ max_buffer = 0
    /\ execute_apps = <<>>
    /\ location_results = <<>>
    /\ pc = "idle"
    /\ app_i = 0
    /\ raised = "none"
    /\ n_vets = 0
    /\ series = <<>>
    /\ no_app

\* expanded['mapping_chunk'] = get_chunked_series(total_length=...)
get_chunked_series_call ==
    /\ caller = "get_chunked_series" /\ batch_pc = "call"
    /\ batch_pc' = "returned"
    /\ batch_return' = [chunked |-> get_chunked_series(c_args.total_length,
                                                       c_args.chunk_size)]
    /\ UNCHANGED <<mgr_config, execute_apps, location_results, pc, app_i,
                   raised, n_vets, series, caller, c_args, df, row_i,
                   geocoded_cols>>
    /\ UNCHANGED app_vars

NextChunked == get_chunked_series_call

SpecChunked == InitChunked /\ [][NextChunked]_vars

(***************************************************************************)
(* The web application (app/routes.py), served by the threaded development *)
(* server app.run starts (rungeocode.py line 9): every request is handled  *)
(* by a thread of its own and the threads share the module's deque.        *)
(***************************************************************************)
\* collections.deque(maxlen=20), routes.py line 17
maxlen == 20

\* The most index POSTs the threads handle.
MaxPosts == 2

\* The threads that handle requests at the same time.
Threads == {"t1", "t2"}

\* The browsers, each with a session cookie of its own.
Browsers == {"a", "b"}

\* The StringIO geocode_from_flask returns for the upload of a browser.
io_output(browser, user_id) == [csv_of |-> browser, made_for |-> user_id]

\* deque.append: a full deque drops its oldest entry.
deque_append(d, x) == IF Len(d) = maxlen THEN Tail(d) \o <<x>> ELSE Append(d, x)

\* The mutation counter of the deque, which every append changes and an
\* iterator compares at each step: the user id appended last is new with
\* every append.
deque_state(d) == IF Len(d) = 0 THEN 0 ELSE d[Len(d)][1]

\* A test of the loop of index_end that takes any entry.
file_matches_any(file, user_id) == TRUE

\* routes.py line 76: file[0] == user_id
file_matches(file, user_id) == file[1] = user_id

\* routes.py lines 75-77: the loop over the deque; the last match stays.
RECURSIVE for_file(_, _, _)
for_file(files, user_id, file_to_download) ==
    IF files = <<>> THEN file_to_download
    ELSE for_file(Tail(files), user_id,
                  IF file_matches(Head(files), user_id) THEN Head(files)[2]
                  ELSE file_to_download)

\* A thread that handles no request.
NoRequest ==
    [route |-> "none", browser |-> "none", pc |-> "idle", user_id |-> 0,
     usetools |-> [list |-> <<>>], keygm |-> "", app_n |-> 0,
     geocoded_data |-> None, error_type |-> None, it_state |-> 0,
     file_to_download |-> None, response |-> "none"]

\* The forms of index that validate: the tools ticked and the key typed.
GeocodeForms ==
    {form \in [use_gm : BOOLEAN, use_osm : BOOLEAN, key : {"", "key"}] :
        form.key = "" => (form.use_gm /\ ~form.use_osm)}

\* routes.py lines 36-39
usetools_of(form) ==
    (IF form.use_gm THEN <<"GM">> ELSE <<>>)
    \o (IF form.use_osm THEN <<"OSM">> ELSE <<>>)

\* The deque after maxlen - 1 earlier uploads, the oldest one by browser
\* "a", the others by browsers that have left.
WarmBuffer ==
    [i \in 1..(maxlen - 1) |->
        <<i - maxlen, io_output(IF i = 1 THEN "a" ELSE "gone", i - maxlen)>>]

\* The server starts with an empty deque, or has run for a while.
InitApp ==
    /\ \/ /\ geocoding_user_variable_buffer = <<>>
          /\ cookie = [b \in Browsers |-> <<>>]
       \/ /\ geocoding_user_variable_buffer = WarmBuffer
          /\ cookie = [b \in Browsers |->
                          IF b = "a" THEN <<1 - maxlen>> ELSE <<>>]
    /\ requests = [t \in Threads |-> NoRequest]
    /\ n_index = 0
    /\ caller = "app"
    /\ c_args = None
    /\ batch_pc = "none"
    /\ df = <<>>
    /\ row_i = 0
    /\ geocoded_cols = <<>>
    /\ batch_return = None
    /\ location_text = ""
    /\ iso = None
    /\ execute_names = {}
    /\ gm_key = ""
    /\ gn_key = ""
    /\ results_per_app = 1
    /\ max_buffer = 0
    /\ execute_apps = <<>>
    /\ location_results = <<>>
    /\ pc = "idle"
    /\ app_i = 0
    /\ raised = "none"
    /\ n_vets = 0
    /\ series = <<>>

\* What the threads of the application never touch.
not_app_vars ==
    <<mgr_config, execute_apps, location_results, pc, app_i, raised, n_vets,
      series, caller, c_args, batch_pc, df, row_i, geocoded_cols,
      batch_return>>

Free(t) == requests[t].pc \in {"idle", "done"}

\* The request of thread t ends with this response; its other locals are
\* gone.
Respond(t, response, file_to_download) ==
    requests' = [requests EXCEPT ![t] =
        [NoRequest EXCEPT !.route = requests[t].route,
                          !.browser = requests[t].browser,
                          !.user_id = requests[t].user_id,
                          !.pc = "done", !.response = response,
                          !.file_to_download = file_to_download]]

\* geocode_from_flask has returned (geocoded_data, error_type, error) to
\* index.
geocode_from_flask_returned(t, geocoded_data, error_type) ==
    requests' = [requests EXCEPT ![t] =
        [NoRequest EXCEPT !.route = requests[t].route,
                          !.browser = requests[t].browser,
                          !.user_id = requests[t].user_id,
                          !.pc = "append",
                          !.geocoded_data = geocoded_data,
                          !.error_type = error_type]]

\* index, routes.py lines 26-39: a POST whose form validates draws a user id,
\* puts it in the session and lists the tools ticked.
index(t, b, form) ==
    /\ Free(t) /\ n_index < MaxPosts
    /\ n_index' = n_index + 1
    /\ requests' = [requests EXCEPT ![t] =
           [NoRequest EXCEPT !.route = "index", !.browser = b,
                             !.pc = "geocode_from_flask",
                             !.user_id = n_index + 1,
                             !.usetools = [list |-> usetools_of(form)],
                             !.keygm = form.key]]
    /\ UNCHANGED <<geocoding_user_variable_buffer, cookie, not_app_vars>>

\* geocode_from_flask, lines 48-55, called at routes.py line 42: the check
\* of the keys raises on an empty list of tools, and the exception leaves
\* index before the append and before the session is saved.
index_geocode_from_flask(t) ==
    /\ requests[t].route = "index" /\ requests[t].pc = "geocode_from_flask"
    /\ LET usetools == OrNone(requests[t].usetools)
           key_error == check_keys_for_tools(requests[t].keygm, "", usetools)
       IN  IF key_error.err # "none"
           THEN Respond(t, key_error.err, None)
           ELSE IF key_error.val # None
           THEN geocode_from_flask_returned(t, None,
                                            PyStr("Key Error: "))
           ELSE requests' = [requests EXCEPT ![t].pc = "execute_query",
                                             ![t].app_n = 1]
    /\ UNCHANGED <<geocoding_user_variable_buffer, cookie, n_index,
                   not_app_vars>>

\* WebInterface.execute_query, query_funcs.py lines 855-862: requests.get
\* sends the request of the next tool at once.
execute_query(t) ==
    /\ requests[t].route = "index" /\ requests[t].pc = "execute_query"
    /\ requests' = [requests EXCEPT ![t].pc = "in_flight"]
    /\ UNCHANGED <<geocoding_user_variable_buffer, cookie, n_index,
                   not_app_vars>>

\* The provider answers and the next tool follows (geocode, lines 691-704),
\* or the request fails and geocode_from_flask (lines 89-90) returns the
\* error; after the last tool the output is made (lines 93-97).
execute_query_return(t) ==
    /\ requests[t].route = "index" /\ requests[t].pc = "in_flight"
    /\ \/ IF requests[t].app_n < Len(requests[t].usetools.list)
          THEN requests' = [requests EXCEPT ![t].pc = "execute_query",
                                ![t].app_n = requests[t].app_n + 1]
          ELSE geocode_from_flask_returned(
                   t, io_output(requests[t].browser, requests[t].user_id),
                   None)
       \/ geocode_from_flask_returned(t, None, PyStr("Geocoding Error: "))
    /\ UNCHANGED <<geocoding_user_variable_buffer, cookie, n_index,
                   not_app_vars>>

\* index, routes.py lines 55-62: the entry is appended and the page is
\* rendered; the response carries the session to the browser.
index_append(t) ==
    /\ requests[t].route = "index" /\ requests[t].pc = "append"
    /\ geocoding_user_variable_buffer' =
           deque_append(geocoding_user_variable_buffer,
                        <<requests[t].user_id, requests[t].geocoded_data>>)
    /\ cookie' = [cookie EXCEPT ![requests[t].browser] =
                                     <<requests[t].user_id>>]
    /\ Respond(t, IF requests[t].error_type # None THEN "index.html"
                  ELSE "index_end.html", None)
    /\ UNCHANGED <<n_index, not_app_vars>>

\* index_end, routes.py lines 68-75: the user id is read from the session,
\* KeyError without one, and the loop over the deque begins.
index_end(t, b) ==
    /\ Free(t)
    /\ IF cookie[b] = <<>>
       THEN requests' = [requests EXCEPT ![t] =
                [NoRequest EXCEPT !.route = "index_end", !.browser = b,
                                  !.pc = "done", !.response = "KeyError"]]
       ELSE requests' = [requests EXCEPT ![t] =
                [NoRequest EXCEPT !.route = "index_end", !.browser = b,
                    !.pc = "for_file", !.user_id = cookie[b][1],
                    !.it_state = deque_state(geocoding_user_variable_buffer)]]
    /\ UNCHANGED <<geocoding_user_variable_buffer, cookie, n_index,
                   not_app_vars>>

\* index_end, routes.py lines 75-85: the loop raises RuntimeError when the
\* deque was appended to since it began; else the last match is sent, or
\* nothing was found.
index_end_for_file(t) ==
    /\ requests[t].route = "index_end" /\ requests[t].pc = "for_file"
    /\ IF deque_state(geocoding_user_variable_buffer) # requests[t].it_state
       THEN Respond(t, "RuntimeError", None)
       ELSE LET file_to_download ==
                    for_file(geocoding_user_variable_buffer,
                             requests[t].user_id, None)
            IN  Respond(t, IF file_to_download = None
                           THEN "No data returned from geocoding"
                           ELSE "send_file", file_to_download)
    /\ UNCHANGED <<geocoding_user_variable_buffer, cookie, n_index,
                   not_app_vars>>

NextApp ==
    \/ \E t \in Threads, b \in Browsers, form \in GeocodeForms :
          index(t, b, form)
    \/ \E t \in Threads : index_geocode_from_flask(t)
    \/ \E t \in Threads : execute_query(t)
    \/ \E t \in Threads : execute_query_return(t)
    \/ \E t \in Threads : index_append(t)
    \/ \E t \in Threads, b \in Browsers : index_end(t, b)
    \/ \E t \in Threads : index_end_for_file(t)

SpecApp == InitApp /\ [][NextApp]_vars

(***************************************************************************)
(* Properties.                                                             *)
(***************************************************************************)
\* vet() has returned (at least once) on this manager.
Vetted == n_vets >= 1 /\ raised = "none"
          /\ pc \in {"get_results_as_series", "done"}

HasBest == "best" \in DictKeys(location_results)

Best == DictGet(location_results, "best")

\* The keys geocode() inserted: every key but 'best'.
ProviderKeys == DictKeys(location_results) \ {"best"}

\* The provider entries that are not None.
Survivors == {k \in ProviderKeys : DictGet(location_results, k) # None}

PointSet(loc) == {loc.points_list[i] : i \in 1..Len(loc.points_list)}

SurvivorPoints == UNION {PointSet(DictGet(location_results, k)) : k \in Survivors}

\* The least and the greatest of a set of floats that holds a number.
Numbers(S) == {v[2] : v \in {w \in S : w[1] = "float"}}
Least(S) == F(CHOOSE m \in Numbers(S) : \A n \in Numbers(S) : m <= n)
Greatest(S) == F(CHOOSE m \in Numbers(S) : \A n \in Numbers(S) : m >= n)

\* Component-wise min/max over a set of points.
BoxOver(P) ==
    [min_x |-> Least({pt[1] : pt \in P}), min_y |-> Least({pt[2] : pt \in P}),
     max_x |-> Greatest({pt[1] : pt \in P}), max_y |-> Greatest({pt[2] : pt \in P})]

BufferOfBox(box) ==
    calc_haversine_distance(box.min_x, box.min_y, box.max_x, box.max_y).val

\* The Result the client of `tag` returned at rank i, as geocode() got it.
Returned(tag, i) == execute_apps[tag].location_results[i]

\* C1: after vet, a provider entry is kept exactly when its buffer is
\* <= max_buffer (the boundary included); every other entry is None.
C1_VetKeepsExactlyWithinBuffer ==
    Vetted =>
        \A tag \in DOMAIN execute_apps :
            \A i \in 1..Len(execute_apps[tag].location_results) :
                DictGet(location_results, tag \o ToString(i)) =
                    IF PyLe(get_diag_buffer(Returned(tag, i)).val, F(max_buffer))
                    THEN Returned(tag, i)
                    ELSE None

\* C1 witness: vet kept an entry whose buffer equals a positive max_buffer
\* and dropped an entry whose buffer is greater.
C1_Witness ==
    /\ Vetted /\ max_buffer > 0
    /\ \E k \in Survivors :
          get_diag_buffer(DictGet(location_results, k)).val = F(max_buffer)
    /\ \E tag \in DOMAIN execute_apps :
          \E i \in 1..Len(execute_apps[tag].location_results) :
              /\ PyGt(get_diag_buffer(Returned(tag, i)).val, F(max_buffer))
              /\ DictGet(location_results, tag \o ToString(i)) = None

\* C2: after vet, 'best' is present iff some provider entry survived and
\* the box over all the survivors' points has a buffer <= max_buffer.
C2_BestIffSurvivorsWithinBuffer ==
    Vetted =>
        (HasBest <=> /\ Survivors # {}
                     /\ PyLe(BufferOfBox(BoxOver(SurvivorPoints)), F(max_buffer)))

\* C2 witness: survivors remain in the map, and there is no 'best' because
\* their combined box exceeds max_buffer.
C2_Witness ==
    /\ Vetted /\ ~HasBest /\ Cardinality(Survivors) >= 2
    /\ PyGt(BufferOfBox(BoxOver(SurvivorPoints)), F(max_buffer))

\* C3: the points of 'best' are the points of the surviving provider
\* entries, and of no other; its bounding box is the component-wise
\* min/max over them.
C3_BestIsUnionOfSurvivors ==
    (Vetted /\ HasBest) =>
        /\ PointSet(Best) = SurvivorPoints
        /\ Best.bound_box = BoxOver(SurvivorPoints)

\* C3 witness: survivors (0,0) and (1,1), an entry vetted out, and 'best'
\* with the bounding box ((0,0),(1,1)) and the buffer 157.2 km.
C3_Witness ==
    /\ Vetted /\ HasBest
    /\ \E k \in ProviderKeys : DictGet(location_results, k) = None
    /\ \E k1 \in Survivors, k2 \in Survivors :
          /\ DictGet(location_results, k1).points_list = << <<F(0), F(0)>> >>
          /\ DictGet(location_results, k2).points_list = << <<F(1), F(1)>> >>
    /\ Best.bound_box = [min_x |-> F(0), min_y |-> F(0),
                         max_x |-> F(1), max_y |-> F(1)]
    /\ get_diag_buffer(Best).val = F(1572)

\* C4: whenever 'best' is present its name is "Vetted" and the count in its
\* type is the number of provider entries that are not None.
C4_BestCountsSurvivors ==
    HasBest =>
        /\ Best.address_name = "Vetted"
        /\ Best.location_type = CompositeType(Cardinality(Survivors))

\* The dict as geocode() left it, rebuilt from the interfaces.
RECURSIVE CollectedFrom(_)
CollectedFrom(j) ==
    IF j = 0 THEN <<>>
    ELSE Collect(CollectedFrom(j - 1), AppKeys[j],
                 return_locs(execute_apps[AppKeys[j]]), 1)

\* What C5 compares of the dict vet leaves.
VetOutcome(results) ==
    [dropped |-> {results[i].k : i \in {j \in 1..Len(results) : results[j].v = None}},
     best |-> IF "best" \in DictKeys(results)
              THEN [box |-> DictGet(results, "best").bound_box,
                    type |-> DictGet(results, "best").location_type]
              ELSE None]

\* C5: the entries vet drops, the survivor count, the presence of 'best'
\* and its bounding box are the same for every order of visiting the
\* entries of the dict.
C5_VetOrderIndependent ==
    (Vetted /\ n_vets = 1) =>
        LET before == CollectedFrom(Len(AppKeys))
            n == Len(before)
        IN  \A p \in Permutations(1..n) :
                LET res == vet([i \in 1..n |-> before[p[i]]], max_buffer) IN
                /\ res.err = "none"
                /\ VetOutcome(res.results) = VetOutcome(location_results)

\* C5 witness: vet ran over three entries or more, dropped one, kept two
\* with different points, one of them holding a NaN coordinate.
C5_Witness ==
    /\ Vetted /\ n_vets = 1 /\ HasBest
    /\ Cardinality(ProviderKeys) >= 3
    /\ Cardinality(Survivors) >= 2
    /\ Survivors # ProviderKeys
    /\ \E pt \in SurvivorPoints : NaN \in {pt[1], pt[2]}

\* C6: a transport failure in a provider's execute step does not make
\* geocode() raise: the provider counts as having returned nothing and the
\* loop goes on to the other providers.
C6_TransportFailureRecovered ==
    ~(pc = "execute_query" /\ raised # "none")

\* The batch run is over: it returned, or an exception left the command
\* line run.
BatchOver ==
    \/ batch_pc = "returned"
    \/ caller = "main" /\ raised # "none"

\* The table a batch run put out.
TableOf(out) == IF Has(out, "csv") THEN out.csv ELSE out.file

\* The columns the run reads of each row are columns of the input table.
ColumnsExist ==
    /\ c_args.address \in TableColumns(df)
    /\ c_args.iso # None => c_args.iso.str \in TableColumns(df)

\* C7: in a batch run over two rows or more whose columns exist, a
\* transport error, a parse error or a row without results never aborts the
\* batch: when the run is over it has put out a table that holds every
\* input row.
C7_RowErrorsNeverAbortBatch ==
    (BatchOver /\ row_i >= 1 /\ Len(df) > 1 /\ ColumnsExist) =>
        /\ batch_return # None
        /\ batch_return.out # None
        /\ Len(TableOf(batch_return.out)) = Len(df)

\* populate_locs of the current interface has run: it returned, or raised.
PopulateRan ==
    \/ pc = "return_locs"
    \/ pc = "populate_locs" /\ raised # "none"

Body == execute_apps[app_class].output.text

\* The entries of a response that holds its list of entries, in the order
\* populate_locs reads them (OSM: those that pass the country filter).
Entries(tag, body) ==
    CASE tag = "GM" -> body.obj.results
      [] tag = "OSM" ->
           SelectSeq(body.items,
                     LAMBDA e : OSMInterface_in_correct_country(
                                    execute_apps[tag], e))
      [] tag = "GN" -> body.obj.geonames
      [] tag = "FG" -> body.doc.fuzzyg.response.results.result.list

HoldsEntries(tag, body) ==
    CASE tag = "GM" -> body.kind = "dict" /\ Has(body.obj, "results")
      [] tag = "OSM" -> body.kind = "list"
      [] tag = "GN" -> body.kind = "dict" /\ Has(body.obj, "geonames")
      [] tag = "FG" -> /\ body \notin {Garbage, FGNoMatch, FGNoResultsNode}
                       /\ Has(body.doc.fuzzyg.response.results.result, "list")

\* The fields populate_locs expects of an entry, and the field that names it.
ExpectedFields(tag) ==
    CASE tag = "GM" -> {"geometry", "formatted_address", "types"}
      [] tag = "OSM" -> {"boundingbox", "display_name", "class"}
      [] tag = "GN" -> {"lng", "lat", "name", "fclName"}
      [] tag = "FG" -> {"ddlong", "ddlat", "fullname", "dsg"}

NameField(tag) ==
    CASE tag = "GM" -> "formatted_address" [] tag = "OSM" -> "display_name"
      [] tag = "GN" -> "name" [] tag = "FG" -> "fullname"

LacksField(tag, e) ==
    \/ ~(ExpectedFields(tag) \subseteq DOMAIN e)
    \/ tag = "GM" /\ Has(e, "geometry")
       /\ ~Has(e.geometry, "bounds") /\ ~Has(e.geometry, "location")

NamesOf(locs) == {locs[i].address_name : i \in 1..Len(locs)}

\* C8: populate_locs skips an entry that lacks an expected field, returns
\* the complete entries it read of the same response, and does not raise.
C8_ParseSkipsMalformedEntries ==
    (PopulateRan /\ HoldsEntries(app_class, Body)) =>
        LET es == Entries(app_class, Body)
            read == 1..Min2(Len(es), results_per_app)
        IN  (\E i \in read : LacksField(app_class, es[i])) =>
                /\ raised = "none"
                /\ \A i \in read :
                      ~LacksField(app_class, es[i]) =>
                          es[i][NameField(app_class)] \in
                              NamesOf(execute_apps[app_class].location_results)
                /\ \A i \in read :
                      LacksField(app_class, es[i]) =>
                          /\ Has(es[i], NameField(app_class)) =>
                             es[i][NameField(app_class)] \notin
                                NamesOf(execute_apps[app_class].location_results)

\* A response that is empty, malformed as a whole, or signals no results.
EmptyOrMalformed(tag, body) ==
    \/ body \in {Garbage, GMNoResultsKey, OSMErrorObject, GNNoGeonamesKey,
                 FGNoMatch, FGNoResultsNode}
    \/ HoldsEntries(tag, body) /\ Len(Entries(tag, body)) = 0

\* C9: such a response makes populate_locs produce no Result, and never
\* raise.
C9_MalformedResponseGivesNothing ==
    (PopulateRan /\ EmptyOrMalformed(app_class, Body)) =>
        /\ raised = "none"
        /\ execute_apps[app_class].location_results = <<>>

\* C10: a fuzzy-gazetteer response whose `result` is a single object gives
\* exactly one Result, built from that object.
C10_SingleMatchNormalized ==
    (PopulateRan /\ app_class = "FG"
     /\ Body \in {FGOneMatch(obj) : obj \in {FG_pt0, FG_pt1}}) =>
        /\ raised = "none"
        /\ Len(execute_apps["FG"].location_results) = 1
        /\ execute_apps["FG"].location_results[1].address_name =
               Body.doc.fuzzyg.response.results.result.dict.fullname

\* The keys of location_results that belong to one provider tag.
TagKeys(tag) ==
    {k \in DictKeys(location_results) :
        \E i \in 1..(MaxEntries + MaxResults) : k = tag \o ToString(i)}

\* C11: a provider's client never returns, and location_results never
\* holds, more than results_per_app entries of one provider tag.
C11_AtMostResultsPerApp ==
    \A tag \in Tags :
        /\ Cardinality(TagKeys(tag)) <= results_per_app
        /\ tag \in DOMAIN execute_apps =>
               Len(execute_apps[tag].location_results) <= results_per_app

\* C11 witness: a response with more entries than results_per_app has been
\* parsed and collected, and the tag holds exactly results_per_app keys.
C11_Witness ==
    /\ pc = "vet" /\ raised = "none"
    /\ \E tag \in DOMAIN execute_apps :
          LET body == execute_apps[tag].output.text IN
          /\ HoldsEntries(tag, body)
          /\ Len(Entries(tag, body)) > results_per_app
          /\ Cardinality(TagKeys(tag)) = results_per_app

\* The tags whose Results geocode() has inserted so far.
CollectedTags == {AppKeys[j] : j \in {n \in 1..Len(AppKeys) : n < app_i}}

\* The Results are named, in their order, after entries of the response
\* taken in the order of the response.
InResponseOrder(tag, locs) ==
    Len(locs) = 0 \/
    LET es == Entries(tag, execute_apps[tag].output.text) IN
    \E f \in [1..Len(locs) -> 1..Len(es)] :
        /\ \A a, b \in 1..Len(locs) : a < b => f[a] < f[b]
        /\ \A a \in 1..Len(locs) :
              /\ Has(es[f[a]], NameField(tag))
              /\ es[f[a]][NameField(tag)] = locs[a].address_name

\* C12: before vet, the i-th Result a client returned is stored under
\* the key tag+i, the ranks of a tag run from 1 without a gap, and the
\* Results follow the order of the entries of the provider's response.
C12_RankIsReturnedOrder ==
    n_vets = 0 =>
        \A tag \in CollectedTags :
            LET locs == execute_apps[tag].location_results IN
            /\ TagKeys(tag) = {tag \o ToString(i) : i \in 1..Len(locs)}
            /\ \A i \in 1..Len(locs) :
                  DictGet(location_results, tag \o ToString(i)) = locs[i]
            /\ InResponseOrder(tag, locs)

\* C12 witness: two providers are collected, and one of them returned two
\* different Results that are stored under its ranks 1 and 2.
C12_Witness ==
    /\ n_vets = 0 /\ pc = "vet" /\ Cardinality(CollectedTags) >= 2
    /\ \E tag \in CollectedTags :
          LET locs == execute_apps[tag].location_results IN
          /\ Len(locs) = 2 /\ locs[1] # locs[2]
          /\ DictGet(location_results, tag \o "1") = locs[1]
          /\ DictGet(location_results, tag \o "2") = locs[2]

\* A provider the run enables has an empty credential.
EnabledTools == Range(c_args.usetools.list)
GMWithoutKey == "GM" \in EnabledTools /\ c_args.keygm = ""
GNWithoutKey == "GN" \in EnabledTools /\ c_args.geonames = ""

\* No input has been read and no manager has been built.
NothingStarted ==
    /\ df = <<>> /\ row_i = 0 /\ geocoded_cols = <<>>
    /\ pc = "idle" /\ execute_apps = <<>>

InvalidIsoInTable ==
    /\ Has(c_args.infile, "rows")
    /\ c_args.iso # None
    /\ \E r \in 1..Len(c_args.infile.rows) :
          /\ Has(c_args.infile.rows[r], c_args.iso.str)
          /\ Upper(c_args.infile.rows[r][c_args.iso.str]) \notin valid_iso2_set

ReadFails == ~Has(c_args.infile, "rows")
ColumnFails ==
    /\ ~ReadFails
    /\ ~({c_args.address, c_args.iso.str} \subseteq
             TableColumns(c_args.infile.rows))

\* A manager raised while a row was geocoded: it is left where it raised.
GeocodingFailed == pc # "idle"

\* The prefix of the first step that failed, in the order of the steps.
ExpectedCategory ==
    IF GMWithoutKey \/ GNWithoutKey THEN PyStr("Key Error: ")
    ELSE IF ReadFails THEN PyStr("Infile Error: ")
    ELSE IF ColumnFails THEN PyStr("Invalid column: ")
    ELSE IF InvalidIsoInTable
    THEN PyStr("The following iso2s provided were invalid: ")
    ELSE IF GeocodingFailed THEN PyStr("Geocoding Error: ")
    ELSE None

\* C15: geocode_from_flask checks the credentials, reads the input, checks
\* the columns, checks the ISO-2 values, geocodes and prepares the output,
\* in this order; a step that fails makes it return (None, prefix of the
\* step, error) without running a later step, no exception leaves it, and
\* it returns a table with prefix None and error None only when no step
\* failed.
C15_StepsInOrder ==
    caller = "flask" =>
        /\ raised # "none" => batch_pc = "row"
        /\ batch_pc = "returned" =>
              /\ batch_return.category = ExpectedCategory
              /\ batch_return.category # None =>
                    /\ batch_return.out = None
                    /\ batch_return.err # None
              /\ batch_return.category = None =>
                    /\ batch_return.out # None
                    /\ batch_return.err = None
              /\ (GMWithoutKey \/ GNWithoutKey \/ ReadFails) => df = <<>>
              /\ (GMWithoutKey \/ GNWithoutKey \/ ReadFails \/ ColumnFails
                  \/ InvalidIsoInTable) => (row_i = 0 /\ pc = "idle")

\* The batch run put out a table.
HasTable == batch_pc = "returned" /\ batch_return.out # None

\* The geocoding cells of one row of the table put out: those that follow
\* the cells of the input columns.
GeocodingCells(out_row) ==
    SubSeq(out_row, Len(InputColumns) + 1, Len(out_row))

\* The geocoding column names of the table put out, in their order.
GeocodingColumns ==
    LET cells == GeocodingCells(TableOf(batch_return.out)[1])
    IN  [n \in 1..Len(cells) |-> cells[n].index]

\* The columns are groups of five, each of one prefix and, after it, the
\* given suffixes in their order.
GroupsOfFive(cols, suffixes) ==
    /\ Len(cols) % 5 = 0
    /\ \A g \in 0..((Len(cols) \div 5) - 1) :
          \E p \in Range(SortedKeys) :
              \A n \in 1..5 : cols[5 * g + n] = p \o "_" \o suffixes[n]

\* C16: in the table put out, the columns of every prefix group are in
\* the order name, type, longitude, latitude, buffer.
C16_SuffixOrder ==
    HasTable =>
        GroupsOfFive(GeocodingColumns, <<"name", "type", "long", "lat", "buffer">>)

\* rearrange_fields has returned.
Rearranged == caller = "rearrange_fields" /\ batch_pc = "returned"

\* The keys that some row of the DataFrame given to rearrange_fields holds.
KeysGiven == {Prefix(c) : c \in ColumnsOf(c_args.gc_df)}

\* The columns of the DataFrame that rearrange_fields returned.
ReturnedColumns ==
    LET cells == batch_return.reindexed[1]
    IN  [n \in 1..Len(cells) |-> cells[n].index]

\* The prefixes of the groups of five columns of that DataFrame.
ReturnedPrefixes ==
    [g \in 1..(Len(ReturnedColumns) \div 5) |->
        Prefix(ReturnedColumns[5 * (g - 1) + 1])]

\* C17: for any subset of the keys of GM, OSM, GN and FG of any rank, when
\* some row produced 'best', the group of 'best' is the first group of
\* columns that rearrange_fields returns, and the groups of the other keys
\* follow in the alphabetical order of their prefix, whatever the case of
\* its letters.
C17_BestFirstThenAlphabetical ==
    (Rearranged /\ "best" \in KeysGiven) =>
        /\ GroupsOfFive(ReturnedColumns, get_geocoding_suffixes)
        /\ ReturnedPrefixes[1] = "best"
        /\ Tail(ReturnedPrefixes) =
               SelectSeq(Tail(SortedKeys), LAMBDA p : p \in KeysGiven)

\* C17 witness: rearrange_fields returned the groups of best and of a key
\* of each of the four tags, of a DataFrame whose first row produced them.
C17_Witness ==
    /\ Rearranged /\ "best" \in KeysGiven
    /\ ReturnedPrefixes = <<"best", "FG2", "GM1", "GN2", "OSM1">>
    /\ batch_return.reindexed[1][1] = [index |-> "best_name", val |-> F(1)]

\* The keys that the Series of some row holds.
KeysSeen == {Prefix(c) : c \in ColumnsOf(geocoded_cols)}

\* The keys that the geocoding columns of the table put out are of.
KeysPutOut == {Prefix(c) : c \in Range(GeocodingColumns)}

\* Every row of the table put out holds, in every geocoding column, the
\* value of the Series of its row, or a missing value when the Series does
\* not hold the column.
MissingWhereLacking ==
    \A r \in 1..Len(geocoded_cols) :
        LET cells == GeocodingCells(TableOf(batch_return.out)[r])
        IN  \A n \in 1..Len(cells) :
                cells[n].val = Cell(geocoded_cols[r], cells[n].index)

\* C18: the geocoding columns of the table put out are those of the keys
\* seen in the Series of some row, a row that lacks a key of another row
\* holds a missing value in its columns, and the table has one row for
\* every row of the input.
C18_SchemaIsUnionOfKeysSeen ==
    HasTable =>
        /\ KeysPutOut = KeysSeen
        /\ MissingWhereLacking
        /\ Len(TableOf(batch_return.out)) = Len(df)

\* What the program does: the columns of 'best' besides those of the keys
\* seen.
SchemaIsKeysSeenAndBest ==
    HasTable =>
        /\ KeysPutOut = KeysSeen \cup {"best"}
        /\ MissingWhereLacking
        /\ Len(TableOf(batch_return.out)) = Len(df)

\* A table of two rows of which one lacks a key of the other.
RowLacksKeyOfOther ==
    /\ HasTable /\ Len(df) = 2
    /\ "GM2" \in KeysSeen
    /\ Cell(geocoded_cols[1], "GM2_name") = NaN
    /\ "best" \in KeysSeen

\* The names of the geocoding columns: a key and a suffix.
GeocodingNames ==
    {p \o "_" \o s : p \in Range(SortedKeys), s \in Range(get_geocoding_suffixes)}

\* C19: every row of the table put out begins with the columns of the
\* input table, in their order and with the values of the row as it was
\* read, and only geocoding columns follow them; the rows read are not
\* changed either.
C19_InputColumnsKept ==
    HasTable =>
        LET out == TableOf(batch_return.out)
            given == c_args.infile.rows
        IN  /\ df = given
            /\ Len(out) = Len(given)
            /\ \A r \in 1..Len(out) :
                  /\ Len(out[r]) >= Len(InputColumns)
                  /\ \A n \in 1..Len(out[r]) :
                        IF n <= Len(InputColumns)
                        THEN /\ out[r][n].index = InputColumns[n]
                             /\ out[r][n].val = given[r][InputColumns[n]]
                        ELSE out[r][n].index \in GeocodingNames

\* C19 witness: a table of two rows with different ISO codes was put out
\* with the columns of best and of a Google result after those of the input.
C19_Witness ==
    /\ HasTable /\ Len(df) = 2
    /\ df[1].iso2 # df[2].iso2
    /\ {"best", "GM1"} \subseteq KeysSeen
    /\ Len(TableOf(batch_return.out)[2]) > Len(InputColumns)

\* The current interface as it is when no ISO value is given, before
\* populate_locs.
WithoutIso ==
    [execute_apps[app_class] EXCEPT !.iso = None, !.location_results = <<>>]

\* C20: an interface given an ISO value that is not of two characters has
\* the request parameters and the location results of the same interface
\* given no ISO value: no country filter in the request, and no entry left
\* out for its country.
C20_NonTwoCharIsoIsAbsent ==
    (PopulateRan /\ iso # None /\ ~IsoHasTwoChars(iso)) =>
        /\ execute_apps[app_class].request_params =
               build_query(app_class, WithoutIso).request_params
        /\ execute_apps[app_class].location_results =
               populate_locs(app_class, WithoutIso).locs

\* What the program does: the statement holds of the interfaces of Google
\* Maps, GeoNames and FuzzyG, which filter in the request only.
NonTwoCharIsoIsAbsentButOSM ==
    (PopulateRan /\ iso # None /\ ~IsoHasTwoChars(iso) /\ app_class # "OSM") =>
        /\ execute_apps[app_class].request_params =
               build_query(app_class, WithoutIso).request_params
        /\ execute_apps[app_class].location_results =
               populate_locs(app_class, WithoutIso).locs

\* The entry of an OSM response that a Result was built of: the names of
\* the entries of the model differ.
OSMEntryOf(loc) ==
    CHOOSE e \in Range(Body.items) :
        Has(e, "display_name") /\ e.display_name = loc.address_name

\* The value of attribute `a` of the flattened Result.
AttributeOf(loc, a) ==
    LET s == get_attributes_as_series(loc)
    IN  s[CHOOSE j \in 1..Len(s) : s[j].index = a].val

\* C21: a Result that OSMInterface.populate_locs built of a boundingbox
\* [south, north, west, east] has min_x = west, max_x = east,
\* min_y = south and max_y = north, and its flattened bb_w, bb_e, bb_s and
\* bb_n are those values.
C21_OSMPointsAreLongLat ==
    (PopulateRan /\ app_class = "OSM") =>
        \A i \in 1..Len(execute_apps["OSM"].location_results) :
            LET loc == execute_apps["OSM"].location_results[i]
                bb == OSMBoundingBox(OSMEntryOf(loc).boundingbox)
            IN  /\ loc.bound_box.min_y = bb[1] /\ loc.bound_box.max_y = bb[2]
                /\ loc.bound_box.min_x = bb[3] /\ loc.bound_box.max_x = bb[4]
                /\ AttributeOf(loc, "bb_s") = bb[1]
                /\ AttributeOf(loc, "bb_n") = bb[2]
                /\ AttributeOf(loc, "bb_w") = bb[3]
                /\ AttributeOf(loc, "bb_e") = bb[4]

\* What the program does: the first coordinate of its points is the
\* latitude, so min_x and max_x are south and north.
OSMPointsAreLatLong ==
    (PopulateRan /\ app_class = "OSM") =>
        \A i \in 1..Len(execute_apps["OSM"].location_results) :
            LET loc == execute_apps["OSM"].location_results[i]
                bb == OSMBoundingBox(OSMEntryOf(loc).boundingbox)
            IN  /\ loc.bound_box.min_x = bb[1] /\ loc.bound_box.max_x = bb[2]
                /\ loc.bound_box.min_y = bb[3] /\ loc.bound_box.max_y = bb[4]

\* The nine attributes of a flattened Result.
NineAttributes ==
    {"name", "type", "long", "lat", "bb_n", "bb_s", "bb_e", "bb_w", "buffer"}

\* The keys of the manager's dict that hold a Result.
PresentKeys ==
    {location_results[i].k : i \in {j \in 1..Len(location_results) :
                                        location_results[j].v # None}}

\* The labels of the Series the manager returned.
SeriesLabels == {series[j].index : j \in 1..Len(series)}

\* C22: the Series that get_results_as_series returns holds, for every key
\* of the manager's dict that holds a Result ('best' too), the nine labels
\* f'{key}_{attribute}' and no other label; a key without Result gives no
\* label; and when no key holds a Result the Series is empty.  The call
\* raises nothing.
C22_SeriesHoldsNineFieldsPerKey ==
    /\ pc = "get_results_as_series" => raised = "none"
    /\ pc = "done" =>
          /\ raised = "none"
          /\ SeriesLabels = {k \o "_" \o a : k \in PresentKeys, a \in NineAttributes}
          /\ Len(series) = 9 * Cardinality(PresentKeys)
          /\ PresentKeys = {} => series = <<>>

\* C22 witness: the Series of a manager whose vet removed one Result, kept
\* another and added 'best'.
C22_Witness ==
    /\ pc = "done" /\ raised = "none"
    /\ "best" \in PresentKeys
    /\ \E i \in 1..Len(location_results) : location_results[i].v = None
    /\ Len(series) >= 18

\* Every provider returned nothing, or every Result was vetted out.
Exhausted ==
    /\ pc = "done" /\ PresentKeys = {}
    /\ \E i \in 1..Len(location_results) : location_results[i].v = None

\* The permutations of a list.
Permutations_of(P) ==
    {[i \in 1..Len(P) |-> P[f[i]]] :
        f \in {g \in [1..Len(P) -> 1..Len(P)] :
                  \A i, j \in 1..Len(P) : g[i] = g[j] => i = j}}

\* The bounding box and the buffer of every permutation of the points of
\* `loc` are those of `loc`.
SameBoxInAnyOrder(loc) ==
    \A Q \in Permutations_of(loc.points_list) :
        /\ get_bounding_box(Q) = loc.bound_box
        /\ get_diag_buffer(GeocodedLocation(Q, loc.address_name,
                                            loc.location_type, loc.source))
               = get_diag_buffer(loc)

\* C23: the bounding box of a Result, and so its buffer, is the same for
\* every order of its points, also when a point has a NaN coordinate.
C23_BoxPermutationInvariant ==
    PopulateRan =>
        \A i \in 1..Len(execute_apps[app_class].location_results) :
            SameBoxInAnyOrder(execute_apps[app_class].location_results[i])

\* A coordinate of the Result is NaN.
HasNaNPoint(loc) ==
    \E j \in 1..Len(loc.points_list) :
        loc.points_list[j][1] = NaN \/ loc.points_list[j][2] = NaN

\* What the program does: the statement holds of the Results without a NaN
\* coordinate.
BoxPermutationInvariantWithoutNaN ==
    PopulateRan =>
        \A i \in 1..Len(execute_apps[app_class].location_results) :
            ~HasNaNPoint(execute_apps[app_class].location_results[i]) =>
                SameBoxInAnyOrder(execute_apps[app_class].location_results[i])

\* An entry passes the country filter: it names no country, or it names
\* the country of the ISO code, whatever the case of the letters.
PassesCountry(e) ==
    \/ ~Has(e, "address")
    \/ ~Has(e.address, "country_code")
    \/ Lower(e.address.country_code) = Lower(iso.str)

\* The names of the Results of the current interface, in their order.
ResultNames ==
    [i \in 1..Len(execute_apps[app_class].location_results) |->
        execute_apps[app_class].location_results[i].address_name]

\* C25: with an ISO code, the Results of OSMInterface are built of the
\* entries that pass the country filter, in their order, and of the first
\* n_results of them at most: the cap counts the entries that passed only.
C25_OSMFilterBeforeCap ==
    (PopulateRan /\ app_class = "OSM" /\ iso # None /\ Body.kind = "list") =>
        LET passed == SelectSeq(Body.items, PassesCountry)
            cap == Min2(Len(passed), results_per_app)
        IN  /\ Len(ResultNames) <= cap
            /\ \A i \in 1..Len(ResultNames) :
                  ResultNames[i] = passed[i].display_name
            /\ raised = "none" => Len(ResultNames) = cap

\* C25 witness: with the code US and a cap of one, the entry of France was
\* left out and the entry without country code, which follows it, was kept.
C25_Witness ==
    /\ PopulateRan /\ app_class = "OSM" /\ iso = PyStr("US")
    /\ raised = "none" /\ results_per_app = 1
    /\ Body.kind = "list" /\ Body.items = <<OSM_fr, OSM_pt1>>
    /\ ResultNames = <<"OSM pt1">>

\* The entry of a Google response that a Result was built of: the
\* addresses of the entries of the model differ.
GMEntryOf(loc) ==
    CHOOSE e \in Range(Body.obj.results) :
        Has(e, "formatted_address") /\ e.formatted_address = loc.address_name

\* The points of an entry's own geometry: both corners of its bounds, else
\* its location, else none.
OwnPoints(e) ==
    IF ~Has(e, "geometry") THEN <<>>
    ELSE IF Has(e.geometry, "bounds")
    THEN << <<e.geometry.bounds.northeast.lng, e.geometry.bounds.northeast.lat>>,
            <<e.geometry.bounds.southwest.lng, e.geometry.bounds.southwest.lat>> >>
    ELSE IF Has(e.geometry, "location")
    THEN << <<e.geometry.location.lng, e.geometry.location.lat>> >>
    ELSE <<>>

\* C28: every Result of GMInterface.populate_locs holds the points of the
\* geometry of the entry it was built of, and no Result is built of an
\* entry whose geometry has neither bounds nor location.
C28_GMPointsAreOwn ==
    (PopulateRan /\ app_class = "GM" /\ HoldsEntries("GM", Body)) =>
        \A i \in 1..Len(execute_apps["GM"].location_results) :
            LET loc == execute_apps["GM"].location_results[i]
            IN  /\ OwnPoints(GMEntryOf(loc)) # <<>>
                /\ loc.points_list = OwnPoints(GMEntryOf(loc))

\* What the program does: the statement holds of the responses in which
\* no entry before the last read lacks both bounds and location.
GMPointsAreOwnOrStale ==
    (PopulateRan /\ app_class = "GM" /\ HoldsEntries("GM", Body)) =>
        \A i \in 1..Len(execute_apps["GM"].location_results) :
            LET loc == execute_apps["GM"].location_results[i]
            IN  \/ loc.points_list = OwnPoints(GMEntryOf(loc))
                \/ /\ OwnPoints(GMEntryOf(loc)) = <<>>
                   /\ \E e \in Range(Body.obj.results) :
                         loc.points_list = OwnPoints(e)

\* get_chunked_series has returned.
Chunked == caller = "get_chunked_series" /\ batch_pc = "returned"

\* The label of the chunk of row r when the rows are split into the
\* consecutive chunks size*k+1 .. size*(k+1), the last one cut at total.
ChunkLabel(r, size, total) ==
    LET k == (r - 1) \div size
    IN  ToString(size * k + 1) \o "_to_"
            \o ToString(IF size * (k + 1) < total THEN size * (k + 1) ELSE total)

\* C30: get_chunked_series gives every row r of 1..total_length the label
\* low_to_high of the chunk of at most chunk_size consecutive rows that
\* holds it: low <= r <= high <= total_length, and the rows
\* chunk_size*k+1 .. chunk_size*(k+1) share one label.
C30_RowsInConsecutiveChunks ==
    Chunked =>
        /\ Len(batch_return.chunked) = c_args.total_length
        /\ \A r \in 1..c_args.total_length :
              batch_return.chunked[r] =
                  ChunkLabel(r, c_args.chunk_size, c_args.total_length)

\* What the program does: the statement holds of the rows whose number is
\* no multiple of chunk_size; a row chunk_size*k gets the label of the
\* chunk after its own, cut at its own end.
RowsInChunksButMultiples ==
    Chunked =>
        /\ Len(batch_return.chunked) = c_args.total_length
        /\ \A r \in 1..c_args.total_length :
              IF r % c_args.chunk_size # 0
              THEN batch_return.chunked[r] =
                       ChunkLabel(r, c_args.chunk_size, c_args.total_length)
              ELSE batch_return.chunked[r] =
                       ToString(r + 1) \o "_to_" \o ToString(r)

\* The five attributes that rearrange_fields keeps.
KeptSuffixes == {"name", "type", "lat", "long", "buffer"}

\* The labels of the cells of row r of the DataFrame returned.
LabelsOfRow(r) ==
    [n \in 1..Len(batch_return.reindexed[r]) |->
        batch_return.reindexed[r][n].index]

\* C29: the columns that rearrange_fields returns are f'{p}_{s}' for every
\* prefix p that some row holds and for 'best', and every s of the five
\* kept attributes, five columns for each prefix and no column of a
\* bounding-box edge; when no row holds 'best', its five columns hold
\* missing values only.
C29_FiveColumnsPerPrefixAndBest ==
    Rearranged =>
        /\ Range(ReturnedColumns) =
               {p \o "_" \o s : p \in KeysGiven \cup {"best"}, s \in KeptSuffixes}
        /\ Len(ReturnedColumns) = 5 * Cardinality(KeysGiven \cup {"best"})
        /\ \A r \in 1..Len(batch_return.reindexed) :
              /\ LabelsOfRow(r) = ReturnedColumns
              /\ "best" \notin KeysGiven =>
                    \A n \in 1..5 : batch_return.reindexed[r][n].val = NaN
        /\ Len(batch_return.reindexed) = Len(c_args.gc_df)

\* C29 witness: of a DataFrame of two rows that hold keys of two tags and
\* no 'best', rearrange_fields returned fifteen columns, the first five of
\* 'best'.
C29_Witness ==
    /\ Rearranged /\ KeysGiven = {"GM1", "OSM2"}
    /\ Len(c_args.gc_df) = 2
    /\ Len(ReturnedColumns) = 15
    /\ ReturnedColumns[1] = "best_name"
    /\ batch_return.reindexed[1][1].val = NaN


\* The provider a thread has a request in flight to.
InFlight(t) == requests[t].pc = "in_flight"

ProviderOf(t) == requests[t].usetools.list[requests[t].app_n]

\* C24: requests to one provider are serialized process-wide: no two
\* threads ever have a request to the same provider in flight at the same
\* time.
C24_OneRequestPerProviderInFlight ==
    \A t1 \in DOMAIN requests, t2 \in DOMAIN requests :
        (t1 # t2 /\ InFlight(t1) /\ InFlight(t2))
            => ProviderOf(t1) # ProviderOf(t2)

\* What the program keeps: one thread has at most one request in flight,
\* and the deque never outgrows its maxlen.
OneRequestPerThreadInFlight ==
    /\ Len(geocoding_user_variable_buffer) <= maxlen
    /\ \A t \in DOMAIN requests :
          InFlight(t) => requests[t].app_n \in 1..Len(requests[t].usetools.list)

\* The places of the deque that hold an entry under this user id.
PlacesOf(d, user_id) == {i \in 1..Len(d) : d[i][1] = user_id}

Latest(S) == CHOOSE i \in S : \A j \in S : j <= i

\* Thread t ends an index_end request by sending a file in this step.
SendsFile(t) ==
    /\ requests[t].route = "index_end" /\ requests[t].pc = "for_file"
    /\ requests'[t].response = "send_file"

\* The file sent is the latest entry under the user id of the requesting
\* session, and is the output of an upload of the requesting browser.
SendsOwnLatest(t) ==
    LET own == PlacesOf(geocoding_user_variable_buffer, requests[t].user_id)
    IN  /\ own # {}
        /\ requests'[t].file_to_download =
               geocoding_user_variable_buffer[Latest(own)][2]
        /\ requests'[t].file_to_download # None
        /\ requests'[t].file_to_download.csv_of = requests[t].browser
        /\ requests'[t].file_to_download.made_for = requests[t].user_id

\* Every entry of the deque after the step was there before it, or is
\* under a user id no entry was under, with the output made for that id.
NothingOverwritten ==
    \A i \in 1..Len(geocoding_user_variable_buffer') :
        LET e == geocoding_user_variable_buffer'[i] IN
            \/ \E j \in 1..Len(geocoding_user_variable_buffer) :
                  geocoding_user_variable_buffer[j] = e
            \/ /\ PlacesOf(geocoding_user_variable_buffer, e[1]) = {}
               /\ e[2] # None => e[2].made_for = e[1]

\* C26: under any interleaving of index and index_end requests of different
\* sessions, index_end sends only the entry appended last under the user id
\* of the requesting session, which is an output of that session, and no
\* step changes the entry of another session.
C26_IndexEndServesOwnData ==
    [][/\ \A t \in DOMAIN requests : SendsFile(t) => SendsOwnLatest(t)
       /\ NothingOverwritten]_vars

\* Browser a was sent its own output while a later entry of browser b is in
\* the deque and the other thread is in the middle of an upload of b.
C26_Witness ==
    \E t \in DOMAIN requests, u \in DOMAIN requests :
        /\ requests[t].route = "index_end" /\ requests[t].pc = "done"
        /\ requests[t].response = "send_file"
        /\ requests[t].browser = "a"
        /\ requests[t].file_to_download.csv_of = "a"
        /\ requests[u].route = "index" /\ requests[u].browser = "b"
        /\ requests[u].pc = "in_flight"
        /\ \E i \in PlacesOf(geocoding_user_variable_buffer,
                             requests[t].user_id) :
              \E j \in (i + 1)..Len(geocoding_user_variable_buffer) :
                  /\ geocoding_user_variable_buffer[j][2] # None
                  /\ geocoding_user_variable_buffer[j][2].csv_of = "b"

\* Thread t ends an index POST in this step.
EndsIndex(t) ==
    /\ requests[t].route = "index" /\ requests[t].pc # "done"
    /\ requests'[t].pc = "done"

\* The step appends one entry under the user id of the POST of thread t,
\* with data None when the geocoding failed, and drops the oldest entry of
\* a full deque.
AppendsOne(t) ==
    LET d == geocoding_user_variable_buffer
        kept == IF Len(d) = maxlen THEN Tail(d) ELSE d
    IN  /\ Len(geocoding_user_variable_buffer') = Len(kept) + 1
        /\ SubSeq(geocoding_user_variable_buffer', 1, Len(kept)) = kept
        /\ geocoding_user_variable_buffer'[Len(kept) + 1][1] =
               requests[t].user_id
        /\ requests[t].error_type # None
               => geocoding_user_variable_buffer'[Len(kept) + 1][2] = None

\* The index POSTs that came after the one of this user id and have been
\* processed.
LaterProcessed(user_id) ==
    Cardinality({v \in (user_id + 1)..n_index :
        /\ v # 0
        /\ \A t \in DOMAIN requests :
              ~(requests[t].route = "index" /\ requests[t].user_id = v
                /\ requests[t].pc # "done")})

\* Thread t ends an index_end request in this step.
EndsIndexEnd(t) ==
    /\ requests[t].route = "index_end" /\ requests[t].pc = "for_file"
    /\ requests'[t].pc = "done"

\* The output is sent exactly when fewer than maxlen later POSTs have been
\* processed, and an entry that is gone is reported as no data.
SentWhileRecent(t) ==
    LET d == geocoding_user_variable_buffer
        own == PlacesOf(d, requests[t].user_id)
    IN  /\ requests'[t].response = "send_file"
               <=> /\ LaterProcessed(requests[t].user_id) < maxlen
                   /\ \E i \in own : d[i][2] # None
        /\ own = {}
               => requests'[t].response = "No data returned from geocoding"

\* C27: the deque never holds more than 20 entries; every validated index
\* POST appends exactly one entry, with data None when the geocoding failed,
\* and drops the oldest entry of a full deque; index_end sends the output of
\* a session exactly while fewer than 20 later index POSTs have been
\* processed and reports no data once the entry is gone.
C27_EveryPostAppendsOne ==
    [][/\ Len(geocoding_user_variable_buffer') <= maxlen
       /\ \A t \in DOMAIN requests : EndsIndex(t) => AppendsOne(t)
       /\ \A t \in DOMAIN requests : EndsIndexEnd(t) => SentWhileRecent(t)]_vars

\* What the program keeps: the deque never holds more than 20 entries, an
\* index POST that geocode_from_flask returns from appends exactly one
\* entry, and an index_end whose loop ends sends the entry of its user id
\* exactly when the deque holds one with data.
ReturnedPostAppendsOne ==
    [][/\ Len(geocoding_user_variable_buffer') <= maxlen
       /\ \A t \in DOMAIN requests :
             (EndsIndex(t) /\ requests[t].pc = "append") => AppendsOne(t)
       /\ \A t \in DOMAIN requests :
             (EndsIndexEnd(t) /\ requests'[t].response # "RuntimeError")
                 => (requests'[t].response = "send_file"
                        <=> \E i \in PlacesOf(geocoding_user_variable_buffer,
                                              requests[t].user_id) :
                               geocoding_user_variable_buffer[i][2] # None)]_vars

\* The oldest entry of a full deque was dropped by the append of a POST,
\* and the session it belonged to is told that no data was found.
PostEvictsOldest ==
    \E t \in DOMAIN requests :
        /\ requests[t].route = "index_end" /\ requests[t].pc = "done"
        /\ requests[t].user_id = 1 - maxlen
        /\ requests[t].response = "No data returned from geocoding"
        /\ Len(geocoding_user_variable_buffer) = maxlen
=============================================================================
